---- MODULE Spec2Model ----
(***************************************************************************)
(* The sandbox pool of src/lib/sandbox: the lifecycle state machine        *)
(* (state-machine.ts) and the SandboxManager (sandbox-manager.ts, which    *)
(* src/src/lib/sandbox/config.ts carries from line 62 on).  The            *)
(* configuration loader (config.ts, lines 1-60) and the container          *)
(* functions writeToContainer and execInContainer (container.ts) have      *)
(* specifications of their own: LoadConfigSpec, WriteFileSpec, ExecSpec.   *)
(*                                                                         *)
(* Scheduling.  The manager runs on one JavaScript event loop.  A step of  *)
(* the model is one turn of that loop: the code from the completion of one *)
(* container-engine call or timer up to the next engine call or timer the  *)
(* same chain of promises waits for.  An await of a promise that is        *)
(* already settled (an early return of destroySandbox, Promise.all of no   *)
(* promises, the TypeError of stopContainer(null)) resumes within the same *)
(* turn, so it is no step boundary.                                        *)
(*                                                                         *)
(* Runs are bounded: at most lim.busy public calls and timer callbacks are *)
(* in progress at once (a call in its retry wait counts), one shutdown()   *)
(* call and one run of each background loop is in flight at a time, and a  *)
(* run hands out lim.ids sandbox ids.  A step that would need one more id  *)
(* is not taken.                                                           *)
(***************************************************************************)
EXTENDS Integers, Sequences, FiniteSets, TLC

(***************************************************************************)
(* Bounds of the model.                                                    *)
(***************************************************************************)
NumCallers == 2    \* concurrent public calls (acquire / initialize)
MaxIds == 2        \* sandbox ids crypto.randomUUID() hands out in one run
MaxClock == 1      \* Date.now() runs over 0..MaxClock
MaxBusy == 2       \* public calls and timer callbacks in progress at once

\* Bounds of the longer runs of one caller.
LongRunCallers == 1
LongRunIds == 3

\* Two firings of the health interval are one interval apart: firings in
\* a row are counted up to this.
QuietTicks == 2

NumListeners == 2  \* listeners registered with on() at once

Larger(a, b) == IF a > b THEN a ELSE b
Callers == 1..Larger(NumCallers, LongRunCallers)
Ids == 1..Larger(MaxIds, LongRunIds)
Listeners == 1..NumListeners

(***************************************************************************)
(* Program constants.                                                      *)
(***************************************************************************)
ACQUIRE_RETRY_INTERVAL_MS == 2000
ACQUIRE_MAX_RETRIES == 3

\* The runs explored: the pool configuration the manager is constructed
\* with (loadConfig's result; times in clock ticks) and the bounds of the
\* run.  The clock matters to the idle reaper alone: it runs where every
\* released sandbox goes Idle (minWarm = 0).  Listeners are registered in
\* the runs of one configuration.
Bounds(callers, ids, clock, listeners) ==
  [callers |-> callers, ids |-> ids, clock |-> clock, busy |-> MaxBusy,
   listeners |-> listeners]

Scenarios ==
  { [cfg |-> [minWarm |-> 0, maxTotal |-> 1, maxIdleMs |-> 0, maxFailures |-> 1],
     lim |-> Bounds(NumCallers, MaxIds, MaxClock, 0)],
    [cfg |-> [minWarm |-> 1, maxTotal |-> 1, maxIdleMs |-> 0, maxFailures |-> 1],
     lim |-> Bounds(NumCallers, MaxIds, 0, 0)],
    [cfg |-> [minWarm |-> 1, maxTotal |-> 2, maxIdleMs |-> 0, maxFailures |-> 3],
     lim |-> Bounds(NumCallers, MaxIds, 0, 0)],
    [cfg |-> [minWarm |-> 2, maxTotal |-> 2, maxIdleMs |-> 0, maxFailures |-> 1],
     lim |-> Bounds(NumCallers, MaxIds, 0, NumListeners)],
    [cfg |-> [minWarm |-> 1, maxTotal |-> 2, maxIdleMs |-> 0, maxFailures |-> 1],
     lim |-> Bounds(LongRunCallers, LongRunIds, 0, 0)] }

(***************************************************************************)
(* state-machine.ts                                                        *)
(***************************************************************************)
SandboxState ==
  {"creating", "initializing", "ready", "executing", "idle", "suspended",
   "destroyed", "error"}

VALID_TRANSITIONS_AddReadyIdle ==
  [from \in SandboxState |->
     CASE from = "creating"     -> {"initializing", "error", "destroyed"}
       [] from = "initializing" -> {"ready", "error", "destroyed"}
       [] from = "ready"        -> {"executing", "idle", "destroyed"}
       [] from = "executing"    -> {"idle", "error", "destroyed"}
       [] from = "idle"         -> {"ready", "suspended", "destroyed"}
       [] from = "suspended"    -> {"initializing", "destroyed"}
       [] from = "destroyed"    -> {}
       [] from = "error"        -> {"creating", "destroyed"}]

VALID_TRANSITIONS ==
  [from \in SandboxState |->
     CASE from = "creating"     -> {"initializing", "error", "destroyed"}
       [] from = "initializing" -> {"ready", "error", "destroyed"}
       [] from = "ready"        -> {"executing", "destroyed"}
       [] from = "executing"    -> {"idle", "error", "destroyed"}
       [] from = "idle"         -> {"ready", "suspended", "destroyed"}
       [] from = "suspended"    -> {"initializing", "destroyed"}
       [] from = "destroyed"    -> {}
       [] from = "error"        -> {"creating", "destroyed"}]

InvalidTransitionError == "InvalidTransitionError"

\* transition(from, to): the new state, or the error it throws.
transition(from, to) ==
  IF to \in VALID_TRANSITIONS[from] THEN to ELSE InvalidTransitionError

canTransition(from, to) == to \in VALID_TRANSITIONS[from]

(***************************************************************************)
(* State of one SandboxManager and of the calls in flight on it.           *)
(***************************************************************************)
VARIABLES
  cfg,               \* this.config (pool and healthCheck fields)
  sandboxes,         \* keys of the Map this.sandboxes
  obj,               \* the TrackedSandbox object of every id ever allocated
  readyQueue,        \* this.readyQueue
  listeners,         \* this.listeners
  initialized,       \* this.initialized
  shutdownRequested, \* this.shutdownRequested
  healthTimer,       \* this.healthTimer: "null", "live" or "cleared"
  cleanupTimer,      \* this.cleanupTimer: "null", "live" or "cleared"
  leakedTimers,      \* an interval pair is running that no field refers to
  nextId,            \* the next id randomUUID() yields
  now,               \* Date.now()
  acq,               \* per caller: the public call in flight and its result
  creators,          \* createTrackedSandbox calls waiting on the engine
  destroyers,        \* destroySandbox calls waiting on the engine
  sd,                \* the shutdown() call
  hl,                \* the healthCheckLoop() run
  cl,                \* the cleanupLoop() run
  handles,           \* tracked ids for which createHandle returned a handle
  emitted,           \* events emitted by the latest step, in order
  seen,              \* per event of emitted: the state field of its sandbox
                     \* as a listener reads it on delivery
  delivered,         \* per event of emitted: the listeners called with it
  pushLog,           \* tracked Ready ids in the order of their latest push
  settled,           \* the public call that settled in the latest step
  pf,                \* argument and result of a pure function under test
  quiet,             \* health ticks in a row that found the manager at rest
  announced,         \* per id: the latest created / destroyed event emitted
  lim                \* the bounds of this run: ids, callers, clock, busy

vars ==
  <<cfg, sandboxes, obj, readyQueue, listeners, initialized,
    shutdownRequested, healthTimer, cleanupTimer, leakedTimers, nextId, now,
    acq, creators, destroyers, sd, hl, cl, handles, emitted, seen, delivered,
    pushLog, settled, pf, quiet, announced, lim>>

NoError == "none"

NoCall ==
  [call |-> "none", c |-> 0, result |-> "none", id |-> 0, attempt |-> 0,
   waited |-> 0, created |-> 0, late |-> FALSE, begun |-> {},
   evented |-> {}, skipped |-> {}, failed |-> FALSE]

\* The state as one value, with the scratch fields of a step: thrown (the
\* error a synchronous call has thrown), ret (the id a lookup returned) and
\* oom (the step needs an id beyond lim.ids).
Cur ==
  [cfg |-> cfg, sandboxes |-> sandboxes, obj |-> obj,
   readyQueue |-> readyQueue, listeners |-> listeners,
   initialized |-> initialized,
   shutdownRequested |-> shutdownRequested, healthTimer |-> healthTimer,
   cleanupTimer |-> cleanupTimer, leakedTimers |-> leakedTimers,
   nextId |-> nextId, now |-> now, acq |-> acq, creators |-> creators,
   destroyers |-> destroyers, sd |-> sd, hl |-> hl, cl |-> cl,
   handles |-> handles, emitted |-> <<>>, seen |-> <<>>, delivered |-> <<>>,
   pushLog |-> pushLog, settled |-> NoCall, lim |-> lim, quiet |-> 0,
   announced |-> announced,
   thrown |-> NoError, ret |-> 0, oom |-> FALSE]

NoObj ==
  [state |-> "none", container |-> FALSE, healthFailures |-> 0,
   sessionId |-> 0, lastUsedAt |-> 0]

Garbage == [NoObj EXCEPT !.state = "collected"]

\* Ids some call in flight still refers to.
Referenced(s) ==
  s.sandboxes
    \cup {t.id : t \in s.creators}
    \cup {d.id : d \in s.destroyers}
    \cup {s.hl.todo[k] : k \in 1..Len(s.hl.todo)}
    \cup {s.cl.todo[k] : k \in 1..Len(s.cl.todo)}
    \cup s.settled.begun
    \cup s.sd.begun

\* A record that has left the map and that no call in flight refers to is
\* garbage (the records a shutdown() began with are kept until the step
\* after it settles); no event is emitted for it any more.
Collected(s) ==
  CHOOSE col \in
    {[i \in Ids |-> IF i \in ref \/ s.obj[i].state = "none"
                    THEN s.obj[i]
                    ELSE Garbage] : ref \in {Referenced(s)}} : TRUE

RECURSIVE Keep(_, _)
Keep(q, S) ==
  IF q = <<>> THEN <<>>
  ELSE IF Head(q) \in S THEN <<Head(q)>> \o Keep(Tail(q), S)
  ELSE Keep(Tail(q), S)

\* The state a step leaves behind: garbage collected, and the handles and
\* the push order kept for the records still of interest.
Normal(s) ==
  CHOOSE n \in
    {[s EXCEPT !.obj = col,
               !.announced = [i \in Ids |-> IF col[i] = Garbage THEN "none"
                                            ELSE @[i]],
               !.handles = @ \cap s.sandboxes,
               !.pushLog = Keep(@, {i \in s.sandboxes :
                                     s.obj[i].state = "ready"})] :
       col \in {Collected(s)}} : TRUE

\* What a step can change besides the record of what it emitted and of
\* the call it settled.
Core(s) ==
  <<s.sandboxes, s.obj, s.readyQueue, s.listeners, s.initialized,
    s.shutdownRequested,
    s.healthTimer, s.cleanupTimer, s.leakedTimers, s.nextId, s.now, s.acq,
    s.creators, s.destroyers, s.sd, s.hl, s.cl, s.handles, s.pushLog,
    s.announced>>

\* A call that returns at once and changes nothing is a stuttering step.
Commit(s) ==
  \E n \in {Normal(s)} :
     /\ ~n.oom
     /\ IF Core(n) = Core(Cur) /\ n.emitted = <<>> /\ n.quiet \in {0, quiet}
        THEN UNCHANGED vars
        ELSE /\ cfg' = n.cfg
             /\ sandboxes' = n.sandboxes
             /\ obj' = n.obj
             /\ readyQueue' = n.readyQueue
             /\ listeners' = n.listeners
             /\ initialized' = n.initialized
             /\ shutdownRequested' = n.shutdownRequested
             /\ healthTimer' = n.healthTimer
             /\ cleanupTimer' = n.cleanupTimer
             /\ leakedTimers' = n.leakedTimers
             /\ nextId' = n.nextId
             /\ now' = n.now
             /\ acq' = n.acq
             /\ creators' = n.creators
             /\ destroyers' = n.destroyers
             /\ sd' = n.sd
             /\ hl' = n.hl
             /\ cl' = n.cl
             /\ handles' = n.handles
             /\ emitted' = n.emitted
             /\ seen' = n.seen
             /\ delivered' = n.delivered
             /\ pushLog' = n.pushLog
             /\ settled' = n.settled
             /\ pf' = pf
             /\ quiet' = n.quiet
             /\ announced' = n.announced
             /\ lim' = lim

IdleCall ==
  [op |-> "none", pc |-> "idle", attempt |-> 0, waited |-> 0, late |-> FALSE,
   created |-> 0]

NoPf == [fn |-> "none"]

RECURSIVE SortedSeq(_)
\* The ids of S in ascending order: ids are allocated when they are
\* inserted, so this is the Map's iteration (insertion) order.
SortedSeq(S) ==
  IF S = {} THEN <<>>
  ELSE LET m == CHOOSE x \in S : \A y \in S : x <= y
       IN <<m>> \o SortedSeq(S \ {m})

RECURSIVE Without(_, _)
\* q.filter((x) => x !== id)
Without(q, id) ==
  IF q = <<>> THEN <<>>
  ELSE IF Head(q) = id THEN Without(Tail(q), id)
  ELSE <<Head(q)>> \o Without(Tail(q), id)

InSeq(q, id) == \E i \in 1..Len(q) : q[i] = id

Event(type, id, from, to, reason, failures) ==
  [type |-> type, sandboxId |-> id, from |-> from, to |-> to,
   reason |-> reason, failures |-> failures]

\* Listener 1 throws on every event it is called with; the others return.
Throws(l) == l = 1

ListenerError == "ListenerError"

\* The record of one delivery: the listeners called, the errors caught and
\* logged, and whether an error left emit.
NoDelivery == [to |-> <<>>, caught |-> 0, escaped |-> FALSE]

RECURSIVE DeliverNoCatch(_, _)
DeliverNoCatch(s, ls) ==
  IF ls = <<>> THEN s
  ELSE LET k == Len(s.delivered)
           s1 == [s EXCEPT !.delivered[k].to = Append(@, Head(ls))]
       IN IF Throws(Head(ls))
          THEN [s1 EXCEPT !.delivered[k].escaped = TRUE,
                          !.thrown = ListenerError]
          ELSE DeliverNoCatch(s1, Tail(ls))

RECURSIVE Deliver(_, _)
\* Lines 259-265: every listener of ls is called in order; what one throws
\* is caught and logged, and the loop goes on.
Deliver(s, ls) ==
  IF ls = <<>> THEN s
  ELSE LET k == Len(s.delivered)
           s1 == [s EXCEPT !.delivered[k].to = Append(@, Head(ls))]
       IN IF Throws(Head(ls))
          THEN Deliver([s1 EXCEPT !.delivered[k].caught = @ + 1], Tail(ls))
          ELSE Deliver(s1, Tail(ls))

\* emit(event): listeners are called in order, in the same turn.
emit(s, ev) ==
  Deliver([s EXCEPT !.emitted = Append(@, ev),
                    !.seen = Append(@, s.obj[ev.sandboxId].state),
                    !.delivered = Append(@, NoDelivery),
                    !.quiet = IF ev.type = "destroyed" THEN 0 ELSE @,
                    !.announced[ev.sandboxId] =
                      IF ev.type \in {"created", "destroyed"} THEN ev.type
                      ELSE @,
                    !.sd.evented =
                      IF ev.type = "destroyed" /\ ev.reason = "shutdown"
                      THEN @ \cup {ev.sandboxId}
                      ELSE @],
          s.listeners)

transitionSandboxUnchecked(s, id, to) ==
  emit([s EXCEPT !.obj[id].state = to],
       Event("state-change", id, s.obj[id].state, to, "", 0))

transitionSandboxEmitFirst(s, id, to) ==
  LET from == s.obj[id].state
      r == transition(from, to)
  IN IF r = InvalidTransitionError
     THEN [s EXCEPT !.thrown = InvalidTransitionError]
     ELSE [emit(s, Event("state-change", id, from, to, "", 0))
             EXCEPT !.obj[id].state = r]

\* transitionSandbox(tracked, to): on a legal pair the state is written
\* and then the event emitted; otherwise InvalidTransitionError is thrown
\* and nothing is written.
transitionSandbox(s, id, to) ==
  LET from == s.obj[id].state
      r == transition(from, to)
  IN IF r = InvalidTransitionError
     THEN [s EXCEPT !.thrown = InvalidTransitionError]
     ELSE emit([s EXCEPT !.obj[id].state = r],
               Event("state-change", id, from, to, "", 0))

\* getStats(), lines 238-247.
getStats(S, o) ==
  [total |-> Cardinality(S),
   ready |-> Cardinality({i \in S : o[i].state = "ready"}),
   executing |-> Cardinality({i \in S : o[i].state = "executing"}),
   idle |-> Cardinality({i \in S : o[i].state = "idle"}),
   suspended |-> Cardinality({i \in S : o[i].state = "suspended"})]

readyCount(s) ==
  Cardinality({i \in s.sandboxes : s.obj[i].state = "ready"})

\* this.readyQueue.push(id)
push(s, id) ==
  [s EXCEPT !.readyQueue = Append(@, id),
            !.pushLog = Append(Without(@, id), id)]

createHandle(s, id) == [s EXCEPT !.handles = @ \cup {id}]

Owner(kind, c) == [kind |-> kind, c |-> c]

\* sessionId: acquire is called with a session tag (1), warmOne passes
\* none to createTrackedSandbox (0, undefined).
SessionTag == 1
SessionOf(owner) == IF owner.kind = "acquire" THEN SessionTag ELSE 0

\* Lines 275-285 and 317-327: a new record, state Creating, is put in the
\* map, and the call waits for createContainer.
NewTracked(s, owner, retry) ==
  IF s.nextId > s.lim.ids THEN [s EXCEPT !.oom = TRUE]
  ELSE LET id == s.nextId
       IN [s EXCEPT !.nextId = id + 1,
                    !.obj[id] = [state |-> "creating", container |-> FALSE,
                                 healthFailures |-> 0,
                                 sessionId |-> SessionOf(owner),
                                 lastUsedAt |-> s.now],
                    !.sandboxes = @ \cup {id},
                    !.creators = @ \cup {[id |-> id, owner |-> owner,
                                          retry |-> retry, pc |-> "create"]}]

\* createTrackedSandbox up to its first await.
createTrackedSandbox(s, owner) ==
  IF s.nextId > s.lim.ids THEN [s EXCEPT !.oom = TRUE]
  ELSE emit(NewTracked(s, owner, FALSE),
            Event("created", s.nextId, "", "", "", 0))

\* createTrackedSandboxRetry up to its first await: no created event.
createTrackedSandboxRetry(s, owner) == NewTracked(s, owner, TRUE)

(***************************************************************************)
(* acquire                                                                 *)
(***************************************************************************)
\* The public call of caller c settles with this result.
Settle(s, c, result, id) ==
  [s EXCEPT !.settled = [call |-> s.acq[c].op, c |-> c, result |-> result,
                         id |-> id, attempt |-> s.acq[c].attempt,
                         waited |-> s.acq[c].waited,
                         created |-> s.acq[c].created,
                         late |-> s.acq[c].late, begun |-> {},
                         evented |-> {}, skipped |-> {}, failed |-> FALSE],
            !.acq[c] = IdleCall,
            !.thrown = NoError]

RECURSIVE DrainQueueFromTail(_, _)
DrainQueueFromTail(s, c) ==
  IF s.readyQueue = <<>> THEN [s EXCEPT !.ret = 0]
  ELSE LET n == Len(s.readyQueue)
           id == s.readyQueue[n]
           s1 == [s EXCEPT !.readyQueue = SubSeq(@, 1, n - 1)]
       IN IF id \in s1.sandboxes /\ s1.obj[id].state = "ready"
          THEN LET s2 == transitionSandbox(s1, id, "executing")
               IN IF s2.thrown # NoError THEN s2
                  ELSE [s2 EXCEPT !.obj[id].sessionId = SessionTag,
                                  !.obj[id].lastUsedAt = s.now,
                                  !.ret = id]
          ELSE DrainQueueFromTail(s1, c)

RECURSIVE DrainQueueKeepHead(_, _)
DrainQueueKeepHead(s, c) ==
  IF s.readyQueue = <<>> THEN [s EXCEPT !.ret = 0]
  ELSE LET id == Head(s.readyQueue)
       IN IF id \in s.sandboxes /\ s.obj[id].state = "ready"
          THEN LET s2 == transitionSandbox(s, id, "executing")
               IN IF s2.thrown # NoError THEN s2
                  ELSE [s2 EXCEPT !.obj[id].sessionId = SessionTag,
                                  !.obj[id].lastUsedAt = s.now,
                                  !.ret = id]
          ELSE DrainQueueKeepHead([s EXCEPT !.readyQueue = Tail(@)], c)

RECURSIVE DrainQueueAnyState(_, _)
\* The loop taking any tracked record, whatever its state.
DrainQueueAnyState(s, c) ==
  IF s.readyQueue = <<>> THEN [s EXCEPT !.ret = 0]
  ELSE LET id == Head(s.readyQueue)
           s1 == [s EXCEPT !.readyQueue = Tail(@)]
       IN IF id \in s1.sandboxes
          THEN LET s2 == transitionSandbox(s1, id, "executing")
               IN IF s2.thrown # NoError THEN s2
                  ELSE [s2 EXCEPT !.obj[id].sessionId = SessionTag,
                                  !.obj[id].lastUsedAt = s.now,
                                  !.ret = id]
          ELSE DrainQueueAnyState(s1, c)

RECURSIVE DrainQueueShared(_, _)
\* The loop handing out the first tracked record it finds, whatever its
\* state, and leaving its id in the queue.
DrainQueueShared(s, c) ==
  IF s.readyQueue = <<>> THEN [s EXCEPT !.ret = 0]
  ELSE LET id == Head(s.readyQueue)
       IN IF id \in s.sandboxes
          THEN LET s2 == transitionSandboxUnchecked(s, id, "executing")
               IN [s2 EXCEPT !.obj[id].sessionId = SessionTag,
                             !.obj[id].lastUsedAt = s.now,
                             !.ret = id]
          ELSE DrainQueueShared([s EXCEPT !.readyQueue = Tail(@)], c)

RECURSIVE DrainQueue(_, _)
\* Lines 165-174 and 188-197: ids are shifted off the queue until one maps
\* to a tracked Ready record, which becomes Executing; ret is its id, or 0
\* when the queue ran empty.
DrainQueue(s, c) ==
  IF s.readyQueue = <<>> THEN [s EXCEPT !.ret = 0]
  ELSE LET id == Head(s.readyQueue)
           s1 == [s EXCEPT !.readyQueue = Tail(@)]
       IN IF id \in s1.sandboxes /\ s1.obj[id].state = "ready"
          THEN LET s2 == transitionSandbox(s1, id, "executing")
               IN IF s2.thrown # NoError THEN s2
                  ELSE [s2 EXCEPT !.obj[id].sessionId = SessionTag,
                                  !.obj[id].lastUsedAt = s.now,
                                  !.ret = id]
          ELSE DrainQueue(s1, c)

AcquireAttemptPrefersFresh(s, c) ==
  IF Cardinality(s.sandboxes) < s.cfg.maxTotal
  THEN LET s2 == createTrackedSandbox(s, Owner("acquire", c))
       IN [s2 EXCEPT !.acq[c].pc = "creating",
                     !.acq[c].created = @ + 1]
  ELSE LET s1 == DrainQueue(s, c)
       IN IF s1.thrown # NoError THEN Settle(s1, c, s1.thrown, 0)
          ELSE IF s1.ret # 0
          THEN Settle(createHandle(s1, s1.ret), c, "handle", s1.ret)
          ELSE [s1 EXCEPT !.ret = -1]

\* One attempt of acquire (lines 164-181 and 187-204): a warm sandbox, or
\* a fresh one when the map is below maxTotal; ret = -1 when the pool is
\* full.
AcquireAttempt(s, c) ==
  LET s1 == DrainQueue(s, c)
  IN IF s1.thrown # NoError THEN Settle(s1, c, s1.thrown, 0)
     ELSE IF s1.ret # 0 THEN Settle(createHandle(s1, s1.ret), c, "handle", s1.ret)
     ELSE IF Cardinality(s1.sandboxes) < s1.cfg.maxTotal
     THEN LET s2 == createTrackedSandbox(s1, Owner("acquire", c))
          IN [s2 EXCEPT !.acq[c].pc = "creating",
                        !.acq[c].created = @ + 1]
     ELSE [s1 EXCEPT !.ret = -1]

\* acquire from line 162 on, up to the first await.
AcquireBody(s, c) ==
  IF s.shutdownRequested THEN Settle(s, c, "SandboxUnavailable", 0)
  ELSE LET a == AcquireAttempt(s, c)
       IN IF a.ret = -1
          THEN [a EXCEPT !.acq[c].pc = "sleep", !.acq[c].attempt = 0]
          ELSE a

AcquireRetryOffByOne(s, c) ==
  LET s0 == [s EXCEPT !.acq[c].waited = @ + ACQUIRE_RETRY_INTERVAL_MS,
                      !.acq[c].attempt = @ + 1]
      a == AcquireAttempt(s0, c)
  IN IF a.ret = -1 /\ a.acq[c].attempt > ACQUIRE_MAX_RETRIES
     THEN Settle(a, c, "PoolExhausted", 0)
     ELSE a

\* The retry loop (lines 184-207) after one wait has elapsed; attempt
\* counts the retries made, this one included.
AcquireRetry(s, c) ==
  LET s0 == [s EXCEPT !.acq[c].waited = @ + ACQUIRE_RETRY_INTERVAL_MS,
                      !.acq[c].attempt = @ + 1]
      a == AcquireAttempt(s0, c)
  IN IF a.ret = -1 /\ a.acq[c].attempt >= ACQUIRE_MAX_RETRIES
     THEN Settle(a, c, "PoolExhausted", 0)
     ELSE a

(***************************************************************************)
(* initialize                                                              *)
(***************************************************************************)
\* warmOne up to its first await.
warmOne(s, owner) == createTrackedSandbox(s, owner)

RECURSIVE WarmPool(_, _, _)
\* Lines 122-125: minWarm calls of warmOne, each run up to its first await.
WarmPool(s, c, n) ==
  IF n = 0 \/ s.oom THEN s
  ELSE WarmPool(warmOne(s, Owner("warm", c)), c, n - 1)

\* Lines 128-133, and the return into the caller: acquire goes on at line
\* 162, a direct initialize() call is done.
InitializeFinish(s, c) ==
  LET s1 == [s EXCEPT !.leakedTimers = @ \/ s.healthTimer = "live",
                      !.healthTimer = "live",
                      !.cleanupTimer = "live",
                      !.initialized = TRUE]
  IN IF s1.acq[c].op = "acquire" THEN AcquireBody(s1, c)
     ELSE Settle(s1, c, "ok", 0)

\* Lines 119-126 after ping and ensureImage have returned.
InitializeWarm(s, c) ==
  LET s1 == WarmPool(s, c, s.cfg.minWarm)
  IN IF s1.oom THEN s1
     ELSE IF s1.cfg.minWarm = 0 THEN InitializeFinish(s1, c)
     ELSE [s1 EXCEPT !.acq[c].pc = "warming"]

(***************************************************************************)
(* createTrackedSandbox, after its first await                             *)
(***************************************************************************)
\* The call of task t has settled, with the record id or by throwing
\* SandboxUnavailableError; its caller goes on: acquire at line 179 or 202,
\* warmOne at line 343 (and initialize, once every warmOne has settled).
CreatorSettled(s, t, ok, id) ==
  LET c == t.owner.c
  IN CASE t.owner.kind = "acquire" ->
            IF ok
            THEN LET s1 == transitionSandbox(s, id, "executing")
                 IN IF s1.thrown # NoError THEN Settle(s1, c, s1.thrown, 0)
                    ELSE Settle(createHandle(s1, id), c, "handle", id)
            ELSE Settle(s, c, "SandboxUnavailable", 0)
       [] t.owner.kind = "warm" ->
            LET s1 == IF ok THEN push(s, id) ELSE s
            IN IF \E u \in s1.creators : u.owner = t.owner THEN s1
               ELSE InitializeFinish(s1, c)
       [] OTHER -> IF ok THEN push(s, id) ELSE s

Drop(s, t) == [s EXCEPT !.creators = @ \ {t}]

Retask(s, t, pc) ==
  [s EXCEPT !.creators = (@ \ {t}) \cup {[t EXCEPT !.pc = pc]}]

\* Lines 304-312: the failed record leaves the map, an error event is
\* emitted and the retry starts.
CatchDelete(s, t) ==
  LET s1 == emit([s EXCEPT !.sandboxes = @ \ {t.id}, !.thrown = NoError],
                 Event("error", t.id, "", "", "", 0))
  IN createTrackedSandboxRetry(Drop(s1, t), t.owner)

\* A catch block that starts a further attempt after a failed retry as well.
\* A catch block that parks the failed record in the map in state Error.
FailedMarksError(s, t) ==
  CreatorSettled(
    Drop(transitionSandboxUnchecked([s EXCEPT !.thrown = NoError],
                                    t.id, "error"), t),
    t, FALSE, 0)

FailedRetriesAgain(s, t) ==
  IF s.obj[t.id].container /\ ~t.retry
  THEN Retask([s EXCEPT !.thrown = NoError], t, "rm")
  ELSE CatchDelete(s, t)

\* Entry of the catch block (line 298) of the first attempt; a failure of
\* the retry leaves createTrackedSandbox as SandboxUnavailableError.
Failed(s, t) ==
  IF t.retry THEN CreatorSettled(Drop([s EXCEPT !.thrown = NoError], t), t, FALSE, 0)
  ELSE IF s.obj[t.id].container THEN Retask([s EXCEPT !.thrown = NoError], t, "rm")
  ELSE CatchDelete(s, t)

\* createContainer has returned (lines 289-293, 329-333) or thrown.
AfterCreateContainer(s, t, ok) ==
  IF ~ok THEN Failed(s, t)
  ELSE LET s1 == transitionSandbox([s EXCEPT !.obj[t.id].container = TRUE],
                                   t.id, "initializing")
       IN IF s1.thrown # NoError THEN Failed(s1, t)
          ELSE Retask(s1, t, "boot")

\* startContainer and initContainerPython have returned (lines 296-297,
\* 336-337), or one of them has thrown.
AfterBoot(s, t, ok) ==
  IF ~ok THEN Failed(s, t)
  ELSE LET s1 == transitionSandbox(s, t.id, "ready")
       IN IF s1.thrown # NoError THEN Failed(s1, t)
          ELSE CreatorSettled(Drop(s1, t), t, TRUE, t.id)

(***************************************************************************)
(* destroySandbox, release                                                 *)
(***************************************************************************)
\* A finally block that leaves the ready queue as it is.
DestroyFinallyKeepQueued(s, id, reason) ==
  emit([s EXCEPT !.sandboxes = @ \ {id}],
       Event("destroyed", id, "", "", reason, 0))

\* The finally block (lines 360-362).
DestroyFinally(s, id, reason) ==
  emit([s EXCEPT !.sandboxes = @ \ {id},
                 !.readyQueue = Without(@, id)],
       Event("destroyed", id, "", "", reason, 0))

\* destroySandbox up to its first engine call.  ret = 1: the call waits
\* for stopContainer and removeContainer; ret = 0: it has returned (an
\* untracked or Destroyed sandbox; or a record without container, on which
\* stopContainer throws at once, so that catch and finally run in the same
\* turn).
destroySandbox(s, id, reason, owner) ==
  IF id \notin s.sandboxes \/ s.obj[id].state = "destroyed"
  THEN [s EXCEPT !.ret = 0]
  ELSE LET s1 == [s EXCEPT !.obj[id].state = "destroyed"]
       IN IF ~s1.obj[id].container
          THEN [DestroyFinally(s1, id, reason) EXCEPT !.ret = 0]
          ELSE [s1 EXCEPT !.destroyers =
                            @ \cup {[id |-> id, reason |-> reason,
                                     owner |-> owner]},
                          !.ret = 1]

SettleCall(s, call, result, id) ==
  [s EXCEPT !.settled = [NoCall EXCEPT !.call = call, !.result = result,
                                       !.id = id],
            !.thrown = NoError]

releaseLessOrEqual(s, id) ==
  IF id \notin s.sandboxes THEN SettleCall(s, "release", "noop", id)
  ELSE LET s1 == transitionSandbox(s, id, "idle")
       IN IF s1.thrown # NoError
          THEN SettleCall(s1, "release", s1.thrown, id)
          ELSE LET s2 == [s1 EXCEPT !.obj[id].sessionId = 0,
                                    !.obj[id].lastUsedAt = s.now]
               IN IF readyCount(s2) <= s2.cfg.minWarm
                  THEN LET s3 == transitionSandbox(s2, id, "ready")
                       IN IF s3.thrown # NoError
                          THEN SettleCall(s3, "release", s3.thrown, id)
                          ELSE SettleCall(push(s3, id), "release", "ok", id)
                  ELSE SettleCall(s2, "release", "ok", id)

releaseUnknownDequeues(s, id) ==
  IF id \notin s.sandboxes
  THEN SettleCall([s EXCEPT !.readyQueue = Without(@, id)],
                  "release", "noop", id)
  ELSE LET s1 == transitionSandbox(s, id, "idle")
       IN IF s1.thrown # NoError
          THEN SettleCall(s1, "release", s1.thrown, id)
          ELSE LET s2 == [s1 EXCEPT !.obj[id].sessionId = 0,
                                    !.obj[id].lastUsedAt = s.now]
               IN IF readyCount(s2) < s2.cfg.minWarm
                  THEN LET s3 == transitionSandbox(s2, id, "ready")
                       IN IF s3.thrown # NoError
                          THEN SettleCall(s3, "release", s3.thrown, id)
                          ELSE SettleCall(push(s3, id), "release", "ok", id)
                  ELSE SettleCall(s2, "release", "ok", id)

\* A release that writes Idle whatever the state of the sandbox is.
releaseAnyState(s, id) ==
  IF id \notin s.sandboxes THEN SettleCall(s, "release", "noop", id)
  ELSE LET s1 == transitionSandboxUnchecked(s, id, "idle")
           s2 == [s1 EXCEPT !.obj[id].sessionId = 0,
                            !.obj[id].lastUsedAt = s.now]
       IN IF readyCount(s2) < s2.cfg.minWarm
          THEN SettleCall(push(transitionSandboxUnchecked(s2, id, "ready"),
                               id),
                          "release", "ok", id)
          ELSE SettleCall(s2, "release", "ok", id)

\* release(sandboxId), lines 210-225.
release(s, id) ==
  IF id \notin s.sandboxes THEN SettleCall(s, "release", "noop", id)
  ELSE LET s1 == transitionSandbox(s, id, "idle")
       IN IF s1.thrown # NoError
          THEN SettleCall(s1, "release", s1.thrown, id)
          ELSE LET s2 == [s1 EXCEPT !.obj[id].sessionId = 0,
                                    !.obj[id].lastUsedAt = s.now]
               IN IF readyCount(s2) < s2.cfg.minWarm
                  THEN LET s3 == transitionSandbox(s2, id, "ready")
                       IN IF s3.thrown # NoError
                          THEN SettleCall(s3, "release", s3.thrown, id)
                          ELSE SettleCall(push(s3, id), "release", "ok", id)
                  ELSE SettleCall(s2, "release", "ok", id)

(***************************************************************************)
(* shutdown                                                                *)
(***************************************************************************)
\* begun: the ids in the map when the call began; evented: the ids for
\* which it has emitted a destroyed event; failed: a stopContainer or
\* removeContainer of it has thrown; late: it began after an earlier call;
\* skipped: the ids of begun that were Destroyed already when line 149 ran.
NoShutdown ==
  [pc |-> "idle", begun |-> {}, evented |-> {}, skipped |-> {},
   failed |-> FALSE, late |-> FALSE]

ShutdownFinishKeepInitialized(s) ==
  [s EXCEPT !.sandboxes = {},
            !.readyQueue = <<>>,
            !.settled = [NoCall EXCEPT !.call = "shutdown", !.result = "ok",
                                       !.begun = s.sd.begun,
                                       !.evented = s.sd.evented,
                                       !.skipped = s.sd.skipped,
                                       !.failed = s.sd.failed,
                                       !.late = s.sd.late],
            !.sd = NoShutdown]

\* Lines 152-155.
ShutdownFinish(s) ==
  [s EXCEPT !.sandboxes = {},
            !.readyQueue = <<>>,
            !.initialized = FALSE,
            !.settled = [NoCall EXCEPT !.call = "shutdown", !.result = "ok",
                                       !.begun = s.sd.begun,
                                       !.evented = s.sd.evented,
                                       !.skipped = s.sd.skipped,
                                       !.failed = s.sd.failed,
                                       !.late = s.sd.late],
            !.sd = NoShutdown]

RECURSIVE DestroyAll(_, _)
\* Line 149: destroySandbox(id, "shutdown") on every record of the map.
DestroyAll(s, ids) ==
  IF ids = <<>> THEN s
  ELSE DestroyAll(destroySandbox(s, Head(ids), "shutdown", "shutdown"),
                  Tail(ids))

\* Lines 148-155: once no destroySandbox call of shutdown is pending,
\* Promise.allSettled resolves and shutdown finishes.
ShutdownForceStop(s) ==
  LET s0 == [s EXCEPT !.sd.skipped =
                        {i \in s.sd.begun : s.obj[i].state = "destroyed"}]
      s1 == DestroyAll(s0, SortedSeq(s0.sandboxes))
  IN IF \E d \in s1.destroyers : d.owner = "shutdown"
     THEN [s1 EXCEPT !.sd.pc = "settling"]
     ELSE ShutdownFinish(s1)

\* Lines 137-146.
ShutdownBegin(s) ==
  LET s1 == [s EXCEPT !.shutdownRequested = TRUE,
                      !.healthTimer = IF @ = "live" THEN "cleared" ELSE @,
                      !.cleanupTimer = IF @ = "live" THEN "cleared" ELSE @,
                      !.sd = [NoShutdown EXCEPT !.begun = s.sandboxes,
                                                !.late = s.shutdownRequested]]
  IN IF \E i \in s1.sandboxes : s1.obj[i].state = "executing"
     THEN [s1 EXCEPT !.sd.pc = "grace"]
     ELSE ShutdownForceStop(s1)

(***************************************************************************)
(* healthCheckLoop, cleanupLoop                                            *)
(***************************************************************************)
IdleLoop == [pc |-> "idle", todo |-> <<>>, now |-> 0]

\* The for loop of healthCheckLoop moves on: the next probe, or the end.
HealthAdvance(s) ==
  IF Len(s.hl.todo) <= 1 THEN [s EXCEPT !.hl = IdleLoop]
  ELSE [s EXCEPT !.hl = [IdleLoop EXCEPT !.pc = "probe",
                                         !.todo = Tail(s.hl.todo)]]

\* Lines 404-408.
HealthReplace(s) ==
  HealthAdvance(IF readyCount(s) < s.cfg.minWarm
                THEN warmOne(s, Owner("rewarm", 0))
                ELSE s)

AfterProbeAboveThreshold(s, ok) ==
  LET id == Head(s.hl.todo)
      s1 == [s EXCEPT !.obj[id].healthFailures = IF ok THEN 0 ELSE @ + 1]
  IN IF s1.obj[id].healthFailures > s1.cfg.maxFailures
     THEN LET s2 == emit(s1, Event("health-check-failed", id, "", "", "",
                                   s1.obj[id].healthFailures))
              s3 == destroySandbox(s2, id, "health-check-failure", "health")
          IN IF s3.ret = 1 THEN [s3 EXCEPT !.hl.pc = "destroy"]
             ELSE HealthReplace(s3)
     ELSE HealthAdvance(s1)

\* A loop in which a probe that exits 0 leaves the count as it is.
AfterProbeNoReset(s, ok) ==
  LET id == Head(s.hl.todo)
      s1 == [s EXCEPT !.obj[id].healthFailures = IF ok THEN @ ELSE @ + 1]
  IN IF s1.obj[id].healthFailures >= s1.cfg.maxFailures
     THEN LET s2 == emit(s1, Event("health-check-failed", id, "", "", "",
                                   s1.obj[id].healthFailures))
              s3 == destroySandbox(s2, id, "health-check-failure", "health")
          IN IF s3.ret = 1 THEN [s3 EXCEPT !.hl.pc = "destroy"]
             ELSE HealthReplace(s3)
     ELSE HealthAdvance(s1)

\* Lines 388-403 after the probe has returned (ok: exit code 0) or has
\* exited non-zero or thrown.
AfterProbe(s, ok) ==
  LET id == Head(s.hl.todo)
      s1 == [s EXCEPT !.obj[id].healthFailures = IF ok THEN 0 ELSE @ + 1]
  IN IF s1.obj[id].healthFailures >= s1.cfg.maxFailures
     THEN LET s2 == emit(s1, Event("health-check-failed", id, "", "", "",
                                   s1.obj[id].healthFailures))
              s3 == destroySandbox(s2, id, "health-check-failure", "health")
          IN IF s3.ret = 1 THEN [s3 EXCEPT !.hl.pc = "destroy"]
             ELSE HealthReplace(s3)
     ELSE HealthAdvance(s1)

\* Lines 383-387.
HealthBegin(s) ==
  LET checkable == SelectSeq(SortedSeq(s.sandboxes),
                             LAMBDA i : s.obj[i].state \in {"ready", "idle"})
  IN IF checkable = <<>> THEN s
     ELSE [s EXCEPT !.hl = [IdleLoop EXCEPT !.pc = "probe",
                                            !.todo = checkable]]

RECURSIVE CleanupLoopTwiceTtl(_)
CleanupLoopTwiceTtl(s) ==
  IF s.cl.todo = <<>> THEN [s EXCEPT !.cl = IdleLoop]
  ELSE LET id == Head(s.cl.todo)
           rest == [s EXCEPT !.cl.todo = Tail(@)]
       IN IF s.cl.now - s.obj[id].lastUsedAt > 2 * s.cfg.maxIdleMs + MaxClock
          THEN LET s1 == destroySandbox(s, id, "idle-timeout", "cleanup")
               IN IF s1.ret = 1 THEN [s1 EXCEPT !.cl.pc = "destroy"]
                  ELSE CleanupLoopTwiceTtl([s1 EXCEPT !.cl.todo = Tail(@)])
          ELSE CleanupLoopTwiceTtl(rest)

RECURSIVE CleanupLoop(_)
\* Lines 417-423, from the sandbox at the head of todo on.
CleanupLoop(s) ==
  IF s.cl.todo = <<>> THEN [s EXCEPT !.cl = IdleLoop]
  ELSE LET id == Head(s.cl.todo)
           rest == [s EXCEPT !.cl.todo = Tail(@)]
       IN IF s.cl.now - s.obj[id].lastUsedAt > s.cfg.maxIdleMs
          THEN LET s1 == destroySandbox(s, id, "idle-timeout", "cleanup")
               IN IF s1.ret = 1 THEN [s1 EXCEPT !.cl.pc = "destroy"]
                  ELSE CleanupLoop([s1 EXCEPT !.cl.todo = Tail(@)])
          ELSE CleanupLoop(rest)

\* The snapshot taking the sandboxes in use as well.
CleanupBeginInUse(s) ==
  CleanupLoop([s EXCEPT !.cl =
     [pc |-> "idle",
      todo |-> SelectSeq(SortedSeq(s.sandboxes),
                         LAMBDA i : s.obj[i].state \in {"idle", "executing"}),
      now |-> s.now]])

\* Lines 414-415.
CleanupBegin(s) ==
  CleanupLoop([s EXCEPT !.cl =
     [pc |-> "idle",
      todo |-> SelectSeq(SortedSeq(s.sandboxes),
                         LAMBDA i : s.obj[i].state = "idle"),
      now |-> s.now]])

\* stopContainer and removeContainer of destroySandbox call d have
\* returned or thrown (ok = FALSE): the finally block runs and the caller
\* of destroySandbox goes on.
AfterDestroy(s, d, ok) ==
  LET s1 == DestroyFinally([s EXCEPT !.destroyers = @ \ {d}], d.id, d.reason)
  IN CASE d.owner = "health" -> HealthReplace(s1)
       [] d.owner = "cleanup" -> CleanupLoop([s1 EXCEPT !.cl.todo = Tail(@)])
       [] d.owner = "shutdown" ->
            LET s2 == [s1 EXCEPT !.sd.failed = @ \/ ~ok]
            IN IF \E e \in s2.destroyers : e.owner = "shutdown" THEN s2
               ELSE ShutdownFinish(s2)
       [] OTHER -> SettleCall(s1, "destroy", IF ok THEN "ok" ELSE "logged", d.id)

(***************************************************************************)
(* The manager after construction, and its steps.                          *)
(***************************************************************************)
InitManager ==
  /\ sandboxes = {}
  /\ obj = [i \in Ids |-> NoObj]
  /\ readyQueue = <<>>
  /\ listeners = <<>>
  /\ initialized = FALSE
  /\ shutdownRequested = FALSE
  /\ healthTimer = "null"
  /\ cleanupTimer = "null"
  /\ leakedTimers = FALSE
  /\ nextId = 1
  /\ now = 0
  /\ acq = [c \in Callers |-> IdleCall]
  /\ creators = {}
  /\ destroyers = {}
  /\ sd = NoShutdown
  /\ hl = IdleLoop
  /\ cl = IdleLoop
  /\ handles = {}
  /\ emitted = <<>>
  /\ seen = <<>>
  /\ delivered = <<>>
  /\ pushLog = <<>>
  /\ settled = NoCall
  /\ quiet = 0
  /\ announced = [i \in Ids |-> "none"]

Init ==
  /\ \E sc \in Scenarios : cfg = sc.cfg /\ lim = sc.lim
  /\ InitManager
  /\ pf = NoPf

\* The public calls and timer callbacks that have begun and not finished.
Busy ==
  Cardinality({c \in Callers : acq[c].pc # "idle"})
  + Cardinality({d \in destroyers : d.owner = "user"})
  + (IF sd.pc # "idle" THEN 1 ELSE 0)
  + (IF hl.pc # "idle" THEN 1 ELSE 0)
  + (IF cl.pc # "idle" THEN 1 ELSE 0)

\* A caller calls acquire(sessionId): lines 160-162 up to the first await.
Acquire(c) ==
  /\ c <= lim.callers
  /\ acq[c].pc = "idle"
  /\ Busy < lim.busy
  /\ LET s == [Cur EXCEPT !.acq[c] = [IdleCall EXCEPT !.op = "acquire",
                                                      !.late = shutdownRequested]]
     IN Commit(IF ~s.initialized THEN [s EXCEPT !.acq[c].pc = "init"]
               ELSE AcquireBody(s, c))

\* A caller calls initialize(): lines 110-114.
Initialize(c) ==
  /\ c <= lim.callers
  /\ acq[c].pc = "idle"
  /\ Busy < lim.busy
  /\ LET s == [Cur EXCEPT !.acq[c] = [IdleCall EXCEPT !.op = "initialize",
                                                      !.late = shutdownRequested]]
     IN Commit(IF s.initialized THEN Settle(s, c, "ok", 0)
               ELSE [s EXCEPT !.acq[c].pc = "init"])

\* docker.ping() and ensureImage() of an initialize call have returned, or
\* one of them has thrown (lines 113-119).
EngineReady(c) ==
  /\ acq[c].pc = "init"
  /\ \E r \in {"ok", "SandboxUnavailable", "EngineError"} :
       Commit(IF r = "ok" THEN InitializeWarm(Cur, c)
              ELSE Settle(Cur, c, r, 0))

\* createContainer returns or throws.
ContainerCreated(t) ==
  /\ t \in creators /\ t.pc = "create"
  /\ \E ok \in BOOLEAN : Commit(AfterCreateContainer(Cur, t, ok))

\* startContainer and initContainerPython return, or one throws.
ContainerBooted(t) ==
  /\ t \in creators /\ t.pc = "boot"
  /\ \E ok \in BOOLEAN : Commit(AfterBoot(Cur, t, ok))

\* removeContainer(...).catch(() => {}) of line 302 settles.
ContainerRemoved(t) ==
  /\ t \in creators /\ t.pc = "rm"
  /\ Commit(CatchDelete(Cur, t))

\* The wait of line 185 elapses.
RetryWaitElapsed(c) ==
  /\ acq[c].pc = "sleep"
  /\ Commit(AcquireRetry(Cur, c))

\* release(sandboxId) with any id.
Release(id) == Commit(release(Cur, id))

\* handle.destroy() on a handle that acquire has returned.
HandleDestroy(id) ==
  /\ id \in handles
  /\ Busy < lim.busy
  /\ LET s == destroySandbox(Cur, id, "user-requested", "user")
     IN Commit(IF s.ret = 1 THEN s ELSE SettleCall(s, "destroy", "noop", id))

\* stopContainer and removeContainer of a destroySandbox call settle.
ContainerDestroyed(d) ==
  /\ d \in destroyers
  /\ \E ok \in BOOLEAN : Commit(AfterDestroy(Cur, d, ok))

\* shutdown() is called while no other shutdown() call is in flight.
Shutdown ==
  /\ sd.pc = "idle"
  /\ Busy < lim.busy
  /\ Commit(ShutdownBegin(Cur))

\* The grace period of line 145 elapses.
GraceElapsed ==
  /\ sd.pc = "grace"
  /\ Commit(ShutdownForceStop(Cur))

TimersLive == healthTimer = "live" \/ leakedTimers

\* No public call, no creation, no teardown and no run of a background loop
\* is in progress.
AtRest ==
  /\ \A c \in Callers : acq[c].pc = "idle"
  /\ creators = {} /\ destroyers = {}
  /\ sd.pc = "idle" /\ hl.pc = "idle" /\ cl.pc = "idle"

\* An interval set at line 129 fires while no health run is in flight.
\* quiet counts the firings in a row that found the manager at rest, with
\* no step of another call and no destroyed event in between.
HealthTick ==
  /\ TimersLive
  /\ hl.pc = "idle"
  /\ Busy < lim.busy
  /\ Commit(HealthBegin([Cur EXCEPT !.quiet =
                           IF ~AtRest THEN 0
                           ELSE IF quiet < QuietTicks THEN quiet + 1
                           ELSE quiet]))

\* The probe of line 389 returns or throws.
ProbeDone ==
  /\ hl.pc = "probe"
  /\ \E ok \in BOOLEAN : Commit(AfterProbe([Cur EXCEPT !.quiet = quiet], ok))

\* An interval set at line 130 fires while no cleanup run is in flight.
CleanupTick ==
  /\ cleanupTimer = "live" \/ leakedTimers
  /\ cl.pc = "idle"
  /\ Busy < lim.busy
  /\ Commit(CleanupBegin(Cur))

\* on(listener), lines 249-250.
On(l) ==
  /\ Len(listeners) < lim.listeners
  /\ ~InSeq(listeners, l)
  /\ Commit([Cur EXCEPT !.listeners = Append(@, l)])

\* The function on(listener) returned is called (lines 251-253).
Off(l) ==
  /\ InSeq(listeners, l)
  /\ Commit([Cur EXCEPT !.listeners = Without(@, l)])

\* Time passes.
ClockTick ==
  /\ now < lim.clock
  /\ Commit([Cur EXCEPT !.now = @ + 1])

Next ==
  \/ \E c \in Callers : Acquire(c)
  \/ \E c \in Callers : Initialize(c)
  \/ \E c \in Callers : EngineReady(c)
  \/ \E t \in creators : ContainerCreated(t)
  \/ \E t \in creators : ContainerBooted(t)
  \/ \E t \in creators : ContainerRemoved(t)
  \/ \E c \in Callers : RetryWaitElapsed(c)
  \/ \E id \in Ids : Release(id)
  \/ \E id \in Ids : HandleDestroy(id)
  \/ \E d \in destroyers : ContainerDestroyed(d)
  \/ Shutdown
  \/ GraceElapsed
  \/ HealthTick
  \/ ProbeDone
  \/ CleanupTick
  \/ \E l \in Listeners : On(l)
  \/ \E l \in Listeners : Off(l)
  \/ ClockTick

Spec == Init /\ [][Next]_vars

(***************************************************************************)
(* The idle reaper: a manager on which shutdown() is never called and no   *)
(* listener is registered, with every released sandbox going Idle.  The    *)
(* cleanup interval keeps firing, and every engine call and every wait of  *)
(* a call in progress ends.                                                *)
(***************************************************************************)
InitIdleTtl ==
  /\ cfg = [minWarm |-> 0, maxTotal |-> 2, maxIdleMs |-> 0, maxFailures |-> 1]
  /\ lim = Bounds(LongRunCallers, MaxIds, MaxClock, 0)
  /\ InitManager
  /\ pf = NoPf

NextIdleTtl ==
  \/ \E c \in Callers : Acquire(c)
  \/ \E c \in Callers : Initialize(c)
  \/ \E c \in Callers : EngineReady(c)
  \/ \E t \in creators : ContainerCreated(t)
  \/ \E t \in creators : ContainerBooted(t)
  \/ \E t \in creators : ContainerRemoved(t)
  \/ \E c \in Callers : RetryWaitElapsed(c)
  \/ \E id \in Ids : Release(id)
  \/ \E id \in Ids : HandleDestroy(id)
  \/ \E d \in destroyers : ContainerDestroyed(d)
  \/ HealthTick
  \/ ProbeDone
  \/ CleanupTick
  \/ ClockTick

\* The engine call or wait of the public call in progress ends (one call
\* is in progress at a time in these runs).
CallProgress ==
  \/ \E c \in Callers : EngineReady(c)
  \/ \E t \in creators : ContainerCreated(t)
  \/ \E t \in creators : ContainerBooted(t)
  \/ \E t \in creators : ContainerRemoved(t)
  \/ \E c \in Callers : RetryWaitElapsed(c)

\* setInterval fires the cleanup again and again, whatever else is in
\* progress; engine calls and waits end.
FairIdleTtl ==
  /\ SF_vars(CleanupTick)
  /\ WF_vars(CallProgress)
  /\ WF_vars(\E d \in destroyers : ContainerDestroyed(d))
  /\ WF_vars(ProbeDone)

IdleTtlSpec == InitIdleTtl /\ [][NextIdleTtl]_vars /\ FairIdleTtl

(***************************************************************************)
(* The lifecycle state machine on its own: transition and canTransition    *)
(* applied to every pair of states.                                        *)
(***************************************************************************)
InitStateMachine ==
  /\ cfg = [minWarm |-> 0, maxTotal |-> 1, maxIdleMs |-> 0, maxFailures |-> 1]
  /\ InitManager
  /\ \E from \in SandboxState, to \in SandboxState :
       pf = [fn |-> "args", from |-> from, to |-> to]
  /\ lim = Bounds(NumCallers, MaxIds, MaxClock, 0)

\* transition(from, to) and canTransition(from, to) are called.
ApplyTransition ==
  /\ pf.fn = "args"
  /\ pf' = [fn |-> "applied", from |-> pf.from, to |-> pf.to,
            result |-> transition(pf.from, pf.to),
            can |-> canTransition(pf.from, pf.to)]
  /\ UNCHANGED <<cfg, sandboxes, obj, readyQueue, listeners, initialized,
                 shutdownRequested, healthTimer, cleanupTimer, leakedTimers,
                 nextId, now, acq, creators, destroyers, sd, hl, cl, handles,
                 emitted, seen, delivered, pushLog, settled, quiet, announced,
                 lim>>

NextStateMachine == ApplyTransition

StateMachineSpec == InitStateMachine /\ [][NextStateMachine]_vars

(***************************************************************************)
(* container.ts: writeToContainer.  Strings are sequences of code points,  *)
(* buffers are sequences of bytes.                                         *)
(***************************************************************************)
MaxPathLen == 2

\* The characters file paths are drawn from: the ends of every range of the
\* character class, its four single characters, and characters around them
\* (newline, space, $, ', comma, :, ;, @, [, `, {).
PathChars ==
  {45, 46, 47, 48, 57, 65, 90, 95, 97, 122,
   10, 32, 36, 39, 44, 58, 59, 64, 91, 96, 123}

RECURSIVE StringsUpTo(_, _)
\* The strings over chars of length at most n.
StringsUpTo(chars, n) ==
  IF n = 0 THEN {<<>>}
  ELSE LET shorter == StringsUpTo(chars, n - 1)
       IN shorter \cup {<<c>> \o s : c \in chars, s \in shorter}

\* The buffers written: empty, a single quote, and two bytes that encode
\* with padding.
Contents == {<<>>, <<39>>, <<255, 0>>}

\* [a-zA-Z0-9/_.\-]
InCharClass(c) ==
  \/ c \in 97..122
  \/ c \in 65..90
  \/ c \in 48..57
  \/ c \in {47, 95, 46, 45}

\* /^[a-zA-Z0-9/_.\-]*$/ : the empty path passes.
SafePathOrEmpty(filePath) ==
  \A k \in 1..Len(filePath) : InCharClass(filePath[k])

\* /^[a-zA-Z0-9/_.\-]+$/.test(filePath): one or more characters, all of the
\* class, from the start of the string to its end ($ without the m flag
\* matches at the end of the input only).
SafePath(filePath) ==
  /\ Len(filePath) >= 1
  /\ \A k \in 1..Len(filePath) : InCharClass(filePath[k])

\* new Error(`Unsafe file path: ${filePath}`)
UnsafeFilePath(filePath) == "Unsafe file path"

\* assertSafeFilePath: the error thrown, NoError when it returns.
assertSafeFilePath(filePath) ==
  IF ~SafePath(filePath) THEN UnsafeFilePath(filePath) ELSE NoError

\* The base64 alphabet: A-Z, a-z, 0-9, + and /.
Base64Char(i) ==
  CASE i <= 25 -> 65 + i
    [] i <= 51 -> 97 + (i - 26)
    [] i <= 61 -> 48 + (i - 52)
    [] i = 62 -> 43
    [] OTHER -> 47

RECURSIVE toBase64(_)
\* content.toString("base64"): three bytes become four characters, a last
\* group of one or two bytes is padded with "=".
toBase64(content) ==
  LET n == Len(content)
      b1 == content[1]
      b2 == IF n >= 2 THEN content[2] ELSE 0
      b3 == IF n >= 3 THEN content[3] ELSE 0
      c1 == Base64Char(b1 \div 4)
      c2 == Base64Char((b1 % 4) * 16 + b2 \div 16)
      c3 == IF n >= 2 THEN Base64Char((b2 % 16) * 4 + b3 \div 64) ELSE 61
      c4 == IF n >= 3 THEN Base64Char(b3 % 64) ELSE 61
  IN IF n = 0 THEN <<>>
     ELSE <<c1, c2, c3, c4>>
          \o (IF n > 3 THEN toBase64(SubSeq(content, 4, n)) ELSE <<>>)

\* `echo '${b64}' | base64 -d > ${filePath}`
WriteCommand(b64, filePath) ==
  [echo |-> b64, decode |-> "base64 -d", redirect |-> filePath]

\* writeToContainer up to its await: the path is checked, then the command
\* is handed to execInContainer (no timeout).
writeToContainer(filePath, content) ==
  LET err == assertSafeFilePath(filePath)
  IN IF err # NoError
     THEN [thrown |-> err, execs |-> <<>>, pending |-> FALSE]
     ELSE [thrown |-> NoError,
           execs |-> <<WriteCommand(toBase64(content), filePath)>>,
           pending |-> TRUE]

\* What execInContainer does for the caller: it resolves with an exit code
\* or rejects.
ExecSettlements ==
  {[ok |-> TRUE, exitCode |-> 0], [ok |-> TRUE, exitCode |-> 1],
   [ok |-> FALSE, exitCode |-> 0]}

InitWriteFile ==
  /\ cfg = [minWarm |-> 0, maxTotal |-> 1, maxIdleMs |-> 0, maxFailures |-> 1]
  /\ InitManager
  /\ \E filePath \in StringsUpTo(PathChars, MaxPathLen), content \in Contents :
       pf = [fn |-> "writeArgs", filePath |-> filePath, content |-> content]
  /\ lim = Bounds(NumCallers, MaxIds, MaxClock, 0)

Manager ==
  <<cfg, sandboxes, obj, readyQueue, listeners, initialized,
    shutdownRequested, healthTimer, cleanupTimer, leakedTimers, nextId, now,
    acq, creators, destroyers, sd, hl, cl, handles, emitted, seen, delivered,
    pushLog, settled, quiet, announced, lim>>

\* handle.writeFile(filePath, content) is called.
WriteFile ==
  /\ pf.fn = "writeArgs"
  /\ LET r == writeToContainer(pf.filePath, pf.content)
     IN pf' = [fn |-> IF r.pending THEN "writeWaits" ELSE "writeSettled",
               filePath |-> pf.filePath, content |-> pf.content,
               thrown |-> r.thrown, execs |-> r.execs]
  /\ UNCHANGED Manager

\* The exec of a write settles: writeToContainer resolves when it resolves,
\* whatever the exit code, and rejects with its error.
WriteExecSettles ==
  /\ pf.fn = "writeWaits"
  /\ \E out \in ExecSettlements :
       pf' = [pf EXCEPT !.fn = "writeSettled",
                        !.thrown = IF out.ok THEN NoError
                                   ELSE "ExecError"]
  /\ UNCHANGED Manager

NextWriteFile == WriteFile \/ WriteExecSettles

WriteFileSpec == InitWriteFile /\ [][NextWriteFile]_vars

(***************************************************************************)
(* container.ts: execInContainer.  The engine sends the output of the      *)
(* command as frames: a header of eight bytes (the stream type, three      *)
(* bytes of padding, the payload length as a big-endian 32-bit number)     *)
(* and the payload.                                                        *)
(***************************************************************************)
MaxFrames == 2
MaxChunks == 2

\* Stream types: 0 stdin, 1 stdout, 2 stderr.
StreamTypes == {0, 1, 2}

\* Payloads: nothing, " a\n", e-acute as two bytes, and its two bytes apart.
\* Bytes of 224 and above (the three- and four-byte forms) are not drawn.
Payloads == {<<>>, <<32, 97, 10>>, <<195, 169>>, <<195>>, <<169>>}

\* What the engine has sent after the last complete frame when the stream
\* ends: nothing, a header cut short, and headers that declare 2 and 257
\* bytes followed by one.
Tails ==
  {<<>>, <<1, 0, 0>>, <<1, 0, 0, 0, 0, 0, 0, 2, 97>>,
   <<2, 0, 0, 0, 0, 0, 1, 1, 97>>}

\* The sizes of a first chunk that is not the whole output.
ChunkSizes == {3, 9}

\* A frame as the engine writes it.
Frame(streamType, payload) ==
  <<streamType, 0, 0, 0, 0, 0, 0, Len(payload)>> \o payload

RECURSIVE Wire(_)
Wire(frames) ==
  IF frames = <<>> THEN <<>>
  ELSE Frame(frames[1].streamType, frames[1].payload) \o Wire(Tail(frames))

FrameLists ==
  UNION {[1..n -> [streamType : StreamTypes, payload : Payloads]] :
           n \in 0..MaxFrames}

RECURSIVE concat(_)
\* Buffer.concat(chunks)
concat(chunks) ==
  IF chunks = <<>> THEN <<>> ELSE chunks[1] \o concat(Tail(chunks))

\* buffer.readUInt8(offset + 7): the lowest byte of the length only.
readLowByte(buffer, offset) == buffer[offset + 4]

\* buffer.readUInt32BE(offset); offsets count from 0.
readUInt32BE(buffer, offset) ==
  buffer[offset + 1] * 16777216 + buffer[offset + 2] * 65536
    + buffer[offset + 3] * 256 + buffer[offset + 4]

RECURSIVE utf8(_)
\* Buffer.toString("utf8") for one- and two-byte forms: a byte below 128 is
\* its code point, a lead byte 194..223 followed by a continuation byte
\* 128..191 is one code point, and any other byte is U+FFFD.
utf8(bytes) ==
  IF bytes = <<>> THEN <<>>
  ELSE LET b == bytes[1]
           n == Len(bytes)
       IN IF b < 128 THEN <<b>> \o utf8(Tail(bytes))
          ELSE IF b \in 194..223 /\ n >= 2 /\ bytes[2] \in 128..191
          THEN <<(b - 192) * 64 + (bytes[2] - 128)>> \o utf8(SubSeq(bytes, 3, n))
          ELSE <<65533>> \o utf8(Tail(bytes))

\* White space and line terminators of String.prototype.trim.
WhiteSpace ==
  {9, 10, 11, 12, 13, 32, 160, 5760, 8232, 8233, 8239, 8287, 12288, 65279}
    \cup 8192..8202

RECURSIVE trimStart(_)
trimStart(str) ==
  IF str # <<>> /\ str[1] \in WhiteSpace THEN trimStart(Tail(str)) ELSE str

RECURSIVE trimEnd(_)
trimEnd(str) ==
  IF str # <<>> /\ str[Len(str)] \in WhiteSpace
  THEN trimEnd(SubSeq(str, 1, Len(str) - 1)) ELSE str

trim(str) == trimEnd(trimStart(str))

RECURSIVE Demux(_, _, _)
\* The while loop of the end handler, from offset with out collected so far.
Demux(buffer, offset, out) ==
  IF ~(offset < Len(buffer)) THEN out
  ELSE IF offset + 8 > Len(buffer) THEN out
  ELSE LET streamType == buffer[offset + 1]
           length == readUInt32BE(buffer, offset + 4)
           start == offset + 8
       IN IF start + length > Len(buffer) THEN out
          ELSE LET content == utf8(SubSeq(buffer, start + 1, start + length))
               IN Demux(buffer, start + length,
                        [stdout |-> IF streamType = 1 THEN out.stdout \o content
                                    ELSE out.stdout,
                         stderr |-> IF streamType = 2 THEN out.stderr \o content
                                    ELSE out.stderr])

Pending == [state |-> "pending", value |-> [name |-> "none"]]
SandboxTimeoutError(operation, timeoutMs) ==
  [name |-> "SandboxTimeoutError", operation |-> operation, timeoutMs |-> timeoutMs]
StreamFailure == [name |-> "StreamError"]
EngineFailure == [name |-> "EngineError"]

\* resolve(value) / reject(value) of the returned promise: the first call
\* settles it, a later one changes nothing.
settle(e, state, value) ==
  [e EXCEPT !.calls = @ + 1,
            !.promise = IF @.state = "pending"
                        THEN [state |-> state, value |-> value] ELSE @]

\* cleanup()
cleanup(e) == [e EXCEPT !.timer = IF @ = "armed" THEN "cleared" ELSE @]

\* The timer's callback.
onTimeout(e) ==
  IF ~e.settled
  THEN settle([e EXCEPT !.settled = TRUE, !.stream = "destroyed",
                        !.timer = "fired"],
              "rejected", SandboxTimeoutError("exec", e.timeoutMs))
  ELSE [e EXCEPT !.timer = "fired"]

\* stream.on("end"): up to the await of exec.inspect().
onEnd(e) ==
  IF e.settled THEN e
  ELSE [cleanup([e EXCEPT !.settled = TRUE])
          EXCEPT !.parsed = Demux(concat(e.chunks), 0,
                                  [stdout |-> <<>>, stderr |-> <<>>]),
                 !.inspecting = TRUE]

\* The rest of the end handler: info.ExitCode ?? 0, Null being null or
\* undefined.
Null == -1

afterInspect(e, ok, ExitCode) ==
  IF ok
  THEN settle([e EXCEPT !.inspecting = FALSE, !.info = ExitCode], "resolved",
              [stdout |-> trim(e.parsed.stdout),
               stderr |-> trim(e.parsed.stderr),
               exitCode |-> IF ExitCode = Null THEN 0 ELSE ExitCode])
  ELSE settle([e EXCEPT !.inspecting = FALSE], "rejected", EngineFailure)

\* The error handler without the test of the settled flag.
onErrorUnguarded(e) ==
  settle(cleanup([e EXCEPT !.settled = TRUE]), "rejected", StreamFailure)

\* stream.on("error")
onError(e) ==
  IF e.settled THEN e
  ELSE settle(cleanup([e EXCEPT !.settled = TRUE]), "rejected", StreamFailure)

\* The exit codes the engine reports.
ExitCodes == {Null, 0, 1, 137}

\* timeoutMs: 0 stands for a call without it.
Timeouts == {0, 5000}

InitExec ==
  /\ cfg = [minWarm |-> 0, maxTotal |-> 1, maxIdleMs |-> 0, maxFailures |-> 1]
  /\ InitManager
  /\ \E frames \in FrameLists, tail \in Tails, timeoutMs \in Timeouts :
       pf = [fn |-> "execArgs", timeoutMs |-> timeoutMs, frames |-> frames,
             tail |-> tail, rest |-> Wire(frames) \o tail, chunks |-> <<>>,
             settled |-> FALSE, timer |-> "none", stream |-> "none",
             promise |-> Pending, calls |-> 0,
             parsed |-> [stdout |-> <<>>, stderr |-> <<>>],
             inspecting |-> FALSE, info |-> Null, ended |-> FALSE,
             failed |-> FALSE, last |-> "none"]
  /\ lim = Bounds(NumCallers, MaxIds, MaxClock, 0)

\* execInContainer is called: container.exec and exec.start succeed, the
\* timer is set when timeoutMs is truthy and the handlers are registered; or
\* one of the two calls fails and the call rejects.
ExecBegin ==
  /\ pf.fn = "execArgs"
  /\ \E ok \in BOOLEAN :
       pf' = IF ok
             THEN [pf EXCEPT !.fn = "exec", !.stream = "open", !.last = "begin",
                             !.timer = IF pf.timeoutMs # 0 THEN "armed" ELSE "none"]
             ELSE [pf EXCEPT !.fn = "exec", !.last = "begin",
                             !.promise = [state |-> "rejected",
                                          value |-> EngineFailure]]
  /\ UNCHANGED Manager

\* stream.on("data"): the next chunk arrives, the rest of the output or its
\* first bytes.
StreamData ==
  /\ pf.fn = "exec" /\ pf.stream = "open" /\ pf.rest # <<>>
  /\ \E k \in {Len(pf.rest)}
               \cup (IF Len(pf.chunks) + 1 < MaxChunks
                     THEN {n \in ChunkSizes : n < Len(pf.rest)} ELSE {}) :
       pf' = [pf EXCEPT !.chunks = Append(@, SubSeq(pf.rest, 1, k)),
                        !.rest = SubSeq(pf.rest, k + 1, Len(pf.rest)),
                        !.last = "data"]
  /\ UNCHANGED Manager

\* The stream emits end: after its last chunk, or late, after the stream was
\* destroyed or failed.
StreamEnd ==
  /\ pf.fn = "exec" /\ ~pf.ended
  /\ \/ pf.stream = "open" /\ pf.rest = <<>>
     \/ pf.stream \in {"destroyed", "failed"}
  /\ pf' = [onEnd([pf EXCEPT !.stream = IF @ = "open" THEN "ended" ELSE @])
              EXCEPT !.ended = TRUE, !.last = "end"]
  /\ UNCHANGED Manager

\* The stream emits error, at any time after it was started.
StreamError ==
  /\ pf.fn = "exec" /\ ~pf.failed /\ pf.stream # "none"
  /\ pf' = [onError([pf EXCEPT !.stream = IF @ = "open" THEN "failed" ELSE @])
              EXCEPT !.failed = TRUE, !.last = "error"]
  /\ UNCHANGED Manager

\* timeoutMs have passed and the timer was not cleared.
ExecTimeout ==
  /\ pf.fn = "exec" /\ pf.timer = "armed"
  /\ pf' = [onTimeout(pf) EXCEPT !.last = "timeout"]
  /\ UNCHANGED Manager

\* exec.inspect() returns or fails.
InspectDone ==
  /\ pf.fn = "exec" /\ pf.inspecting
  /\ \E ok \in BOOLEAN, ExitCode \in ExitCodes :
       /\ ~ok => ExitCode = Null
       /\ pf' = [afterInspect(pf, ok, ExitCode) EXCEPT !.last = "inspect"]
  /\ UNCHANGED Manager

NextExec ==
  \/ ExecBegin
  \/ StreamData
  \/ StreamEnd
  \/ StreamError
  \/ ExecTimeout
  \/ InspectDone

ExecSpec == InitExec /\ [][NextExec]_vars

(***************************************************************************)
(* config.ts: loadConfig.  A value that may be undefined is a record       *)
(* [def, v]; the strings of the environment are sequences of code points.  *)
(***************************************************************************)
Undefined == [def |-> FALSE, v |-> 0]
Num(n) == [def |-> TRUE, v |-> n]
Unset == [def |-> FALSE, v |-> <<>>]
Str(s) == [def |-> TRUE, v |-> s]

MB == 1024 * 1024
SEC == 1000
MIN == 60 * SEC

DEFAULTS ==
  [image |-> "ubuntu:22.04",
   pool |-> [minWarm |-> 0, maxTotal |-> 5, maxIdleMs |-> 5 * MIN],
   resourceLimits |-> [memoryBytes |-> 512 * MB, nanoCpus |-> 1000000000,
                       pidsLimit |-> 256],
   healthCheck |-> [intervalMs |-> 30 * SEC, maxFailures |-> 3],
   timeouts |-> [execMs |-> 60 * SEC, initMs |-> 120 * SEC,
                 shutdownGraceMs |-> 10 * SEC]]

RECURSIVE Digits(_)
\* The longest prefix of decimal digits of str.
Digits(str) ==
  IF str # <<>> /\ str[1] \in 48..57 THEN <<str[1]>> \o Digits(Tail(str))
  ELSE <<>>

RECURSIVE DecimalValue(_)
DecimalValue(digits) ==
  IF digits = <<>> THEN 0
  ELSE DecimalValue(SubSeq(digits, 1, Len(digits) - 1)) * 10
         + (digits[Len(digits)] - 48)

\* parseInt(v, 10): white space at the start is skipped, a sign is read,
\* then the digits up to the first other character; NaN (undefined here)
\* when there is no digit.
parseInt(v) ==
  LET s == trimStart(v)
      signed == s # <<>> /\ s[1] \in {43, 45}
      digits == Digits(IF signed THEN Tail(s) ELSE s)
  IN IF digits = <<>> THEN Undefined
     ELSE Num((IF signed /\ s[1] = 45 THEN -1 ELSE 1) * DecimalValue(digits))

\* envInt(key), given process.env[key]
envInt(value) == IF ~value.def THEN Undefined ELSE parseInt(value.v)

\* override ?? fromEnv ?? fallback: the caller before the environment.
OverrideEnvDefault(fromEnv, override, fallback) ==
  IF override.def THEN override.v
  ELSE IF fromEnv.def THEN fromEnv.v ELSE fallback

\* fromEnv ?? override ?? fallback
EnvOverrideDefault(fromEnv, override, fallback) ==
  IF fromEnv.def THEN fromEnv.v
  ELSE IF override.def THEN override.v ELSE fallback

\* override ?? fallback
OverrideDefault(override, fallback) ==
  IF override.def THEN override.v ELSE fallback

loadConfig(env, overrides) ==
  [image |-> EnvOverrideDefault(env.SANDBOX_IMAGE, overrides.image,
                                DEFAULTS.image),
   pool |->
     [minWarm |-> EnvOverrideDefault(envInt(env.SANDBOX_POOL_MIN_WARM),
                                     overrides.minWarm, DEFAULTS.pool.minWarm),
      maxTotal |-> EnvOverrideDefault(envInt(env.SANDBOX_POOL_MAX_TOTAL),
                                      overrides.maxTotal, DEFAULTS.pool.maxTotal),
      maxIdleMs |-> EnvOverrideDefault(envInt(env.SANDBOX_POOL_MAX_IDLE_MS),
                                       overrides.maxIdleMs,
                                       DEFAULTS.pool.maxIdleMs)],
   resourceLimits |->
     [memoryBytes |-> EnvOverrideDefault(envInt(env.SANDBOX_MEMORY_BYTES),
                                         overrides.memoryBytes,
                                         DEFAULTS.resourceLimits.memoryBytes),
      nanoCpus |-> OverrideDefault(overrides.nanoCpus,
                                   DEFAULTS.resourceLimits.nanoCpus),
      pidsLimit |-> OverrideDefault(overrides.pidsLimit,
                                    DEFAULTS.resourceLimits.pidsLimit)],
   healthCheck |->
     [intervalMs |-> OverrideDefault(overrides.intervalMs,
                                     DEFAULTS.healthCheck.intervalMs),
      maxFailures |-> OverrideDefault(overrides.maxFailures,
                                      DEFAULTS.healthCheck.maxFailures)],
   timeouts |->
     [execMs |-> OverrideDefault(overrides.execMs, DEFAULTS.timeouts.execMs),
      initMs |-> OverrideDefault(overrides.initMs, DEFAULTS.timeouts.initMs),
      shutdownGraceMs |-> OverrideDefault(overrides.shutdownGraceMs,
                                          DEFAULTS.timeouts.shutdownGraceMs)]]

\* Values of the two pool-size variables: unset, "7", "-1", "abc", "",
\* "12px", " 3" and "0".
EnvValues ==
  {Unset, Str(<<55>>), Str(<<45, 49>>), Str(<<97, 98, 99>>), Str(<<>>),
   Str(<<49, 50, 112, 120>>), Str(<<32, 51>>), Str(<<48>>)}

\* Values of the other two numeric variables: unset, "0" and "x".
FewEnvValues == {Unset, Str(<<48>>), Str(<<120>>)}

\* Numbers a caller overrides a field with, or none.
OverrideValues == {Undefined, Num(0), Num(3)}

InitLoadConfig ==
  /\ cfg = [minWarm |-> 0, maxTotal |-> 1, maxIdleMs |-> 0, maxFailures |-> 1]
  /\ InitManager
  /\ \E minWarm \in EnvValues, maxTotal \in EnvValues,
        maxIdleMs \in FewEnvValues, memoryBytes \in FewEnvValues,
        image \in {[def |-> FALSE, v |-> ""], [def |-> TRUE, v |-> "python:3"]},
        oMinWarm \in OverrideValues, oMaxTotal \in OverrideValues,
        other \in OverrideValues :
       pf = [fn |-> "configArgs",
             env |-> [SANDBOX_IMAGE |-> image,
                      SANDBOX_POOL_MIN_WARM |-> minWarm,
                      SANDBOX_POOL_MAX_TOTAL |-> maxTotal,
                      SANDBOX_POOL_MAX_IDLE_MS |-> maxIdleMs,
                      SANDBOX_MEMORY_BYTES |-> memoryBytes],
             overrides |-> [image |-> [def |-> FALSE, v |-> ""],
                            minWarm |-> oMinWarm, maxTotal |-> oMaxTotal,
                            maxIdleMs |-> other, memoryBytes |-> other,
                            nanoCpus |-> other, pidsLimit |-> other,
                            intervalMs |-> other, maxFailures |-> other,
                            execMs |-> other, initMs |-> other,
                            shutdownGraceMs |-> other]]
  /\ lim = Bounds(NumCallers, MaxIds, MaxClock, 0)

\* loadConfig(overrides) is called.
LoadConfig ==
  /\ pf.fn = "configArgs"
  /\ pf' = [fn |-> "loaded", env |-> pf.env, overrides |-> pf.overrides,
            config |-> loadConfig(pf.env, pf.overrides)]
  /\ UNCHANGED Manager

NextLoadConfig == LoadConfig

LoadConfigSpec == InitLoadConfig /\ [][NextLoadConfig]_vars

(***************************************************************************)
(* Properties.                                                             *)
(***************************************************************************)
\* The transition table as the specification gives it.
SpecTable ==
  [from \in SandboxState |->
     CASE from = "creating"     -> {"initializing", "error", "destroyed"}
       [] from = "initializing" -> {"ready", "error", "destroyed"}
       [] from = "ready"        -> {"executing", "destroyed"}
       [] from = "executing"    -> {"idle", "error", "destroyed"}
       [] from = "idle"         -> {"ready", "suspended", "destroyed"}
       [] from = "suspended"    -> {"initializing", "destroyed"}
       [] from = "error"        -> {"creating", "destroyed"}
       [] from = "destroyed"    -> {}]

\* C1: in every reachable state the pool map holds at most pool.maxTotal
\* records.
C1_PoolWithinMaxTotal == Cardinality(sandboxes) <= cfg.maxTotal

\* The state-change events a step emitted for sandbox i, in order.
ChangesOf(evs, i) ==
  SelectSeq(evs, LAMBDA e : e.type = "state-change" /\ e.sandboxId = i)

\* The writes of one step to the state field of sandbox i: from the state
\* before the step, through the pairs transitionSandbox has written (each
\* followed by its state-change event), to the state after it.  Apart from
\* the pairs of the table, only the first write of a new record (Creating)
\* and the write of Destroyed by destroySandbox occur; a record nothing
\* refers to any more has no state to observe.
LegalWrites(before, evs, after) ==
  LET start == IF before \in {"none", "collected"} /\ (evs # <<>> \/ after = "creating")
               THEN "creating" ELSE before
      last == IF evs = <<>> THEN start ELSE evs[Len(evs)].to
  IN /\ \A k \in 1..Len(evs) :
          /\ evs[k].from = (IF k = 1 THEN start ELSE evs[k - 1].to)
          /\ evs[k].to \in SpecTable[evs[k].from]
     /\ after \in {last, "destroyed", "collected"}

\* C2: every change of a sandbox's state field is a pair of the transition
\* table, except the write of Destroyed made by the destroy path.
C2_OnlyTableTransitions ==
  [][\A i \in Ids :
       LegalWrites(obj[i].state, ChangesOf(emitted', i), obj'[i].state)]_vars

\* A release has just taken a sandbox Executing -> Idle -> Ready.
C2_Witness ==
  /\ settled.call = "release" /\ settled.result = "ok"
  /\ Len(ChangesOf(emitted, settled.id)) = 2
  /\ obj[settled.id].state = "ready"

\* C3: transition(from, to) returns to exactly on the pairs of the table
\* and fails with InvalidTransition on all others, and canTransition is
\* true exactly when transition succeeds.
C3_TransitionMatchesTable ==
  pf.fn = "applied" =>
    /\ pf.result = (IF pf.to \in SpecTable[pf.from] THEN pf.to
                    ELSE InvalidTransitionError)
    /\ pf.can <=> (pf.result # InvalidTransitionError)

\* transition has rejected a pair, and has accepted another.
C3_Witness ==
  /\ pf.fn = "applied"
  /\ \/ pf.from = "destroyed" /\ pf.to = "creating"
        /\ pf.result = InvalidTransitionError /\ ~pf.can
     \/ pf.from = "idle" /\ pf.to = "ready" /\ pf.result = "ready" /\ pf.can

\* The latest step was a release(id) that promoted sandbox id to Ready.
ReleasePromoted(id) ==
  /\ settled.call = "release" /\ settled.id = id
  /\ \E k \in 1..Len(emitted) :
       /\ emitted[k].type = "state-change" /\ emitted[k].sandboxId = id
       /\ emitted[k].from = "idle" /\ emitted[k].to = "ready"

\* C4: every id in the ready queue maps to a record of the pool map whose
\* state is Ready; and right after release has promoted a sandbox to Ready
\* its id is in the ready queue.
C4_QueueHoldsReadyOnly ==
  /\ \A k \in 1..Len(readyQueue) :
       /\ readyQueue[k] \in sandboxes
       /\ obj[readyQueue[k]].state = "ready"
  /\ \A id \in Ids : ReleasePromoted(id) => InSeq(readyQueue, id)

\* C4 as amended: every id in the ready queue that maps to a record of
\* the pool map maps to one that is Ready, or that destroySandbox has
\* marked Destroyed and is still tearing down (it leaves the map and the
\* queue together when the teardown ends); the queue may also hold ids
\* whose record has left the map; and right after release has promoted a
\* sandbox to Ready its id is in the ready queue.
C4_QueueHoldsReadyOrDying ==
  /\ \A k \in 1..Len(readyQueue) :
       readyQueue[k] \in sandboxes =>
         \/ obj[readyQueue[k]].state = "ready"
         \/ /\ obj[readyQueue[k]].state = "destroyed"
            /\ \E d \in destroyers : d.id = readyQueue[k]
  /\ \A id \in Ids : ReleasePromoted(id) => InSeq(readyQueue, id)

\* A release has just promoted a sandbox while another queued sandbox is
\* being torn down.
C4_Witness ==
  \E id \in Ids :
    /\ ReleasePromoted(id)
    /\ \E k \in 1..Len(readyQueue) :
         readyQueue[k] \in sandboxes /\ obj[readyQueue[k]].state = "destroyed"

ReadyIn(S, o) == {i \in S : o[i].state = "ready"}

\* The step is release(id) on a tracked Executing sandbox.
ReleasesExecuting(id) ==
  /\ settled'.call = "release" /\ settled'.id = id
  /\ id \in sandboxes /\ obj[id].state = "executing"

\* C5: release(id) on a tracked Executing sandbox clears its sessionId;
\* with fewer than minWarm sandboxes Ready at that moment it ends Ready
\* with its id appended at the tail of the ready queue, otherwise it ends
\* Idle with its id not in the ready queue.
C5_ReleaseOutcome ==
  [][\A id \in Ids :
       ReleasesExecuting(id) =>
         /\ obj'[id].sessionId = 0
         /\ IF Cardinality(ReadyIn(sandboxes, obj)) < cfg.minWarm
            THEN /\ obj'[id].state = "ready"
                 /\ readyQueue' = Append(readyQueue, id)
            ELSE /\ obj'[id].state = "idle"
                 /\ ~InSeq(readyQueue', id)]_vars

\* A release has left a sandbox Idle because the warm floor was met by
\* another, Ready sandbox.
C5_Witness ==
  /\ settled.call = "release" /\ settled.result = "ok"
  /\ obj[settled.id].state = "idle" /\ obj[settled.id].sessionId = 0
  /\ cfg.minWarm = 1
  /\ ReadyIn(sandboxes, obj) # {}

\* No id of the ready queue maps to a tracked Ready sandbox.
QueueYieldsNone ==
  \A k \in 1..Len(readyQueue) :
    ~(readyQueue[k] \in sandboxes /\ obj[readyQueue[k]].state = "ready")

PoolFull == Cardinality(sandboxes) >= cfg.maxTotal

\* C6: while every attempt of an acquire finds the pool map at maxTotal
\* and no Ready sandbox in the queue, it waits 2000 ms and retries; after
\* exactly 3 such retries it fails with PoolExhausted and has inserted no
\* record.
C6_ExhaustedAfterThreeRetries ==
  [][\A c \in Callers :
       /\ (acq[c].pc # "sleep" /\ acq'[c].pc = "sleep") =>
            acq'[c].attempt = 0 /\ acq'[c].waited = 0
       /\ (acq[c].pc = "sleep" /\ acq'[c] # acq[c]
           /\ QueueYieldsNone /\ PoolFull) =>
            /\ sandboxes' = sandboxes
            /\ nextId' = nextId
            /\ IF acq[c].attempt < 2
               THEN /\ acq'[c].pc = "sleep"
                    /\ acq'[c].attempt = acq[c].attempt + 1
                    /\ acq'[c].waited = acq[c].waited + 2000
               ELSE /\ acq'[c].pc = "idle"
                    /\ settled'.call = "acquire" /\ settled'.c = c
                    /\ settled'.result = "PoolExhausted"
                    /\ settled'.attempt = 3 /\ settled'.waited = 6000
       /\ (settled'.call = "acquire" /\ settled'.result = "PoolExhausted") =>
            /\ settled'.attempt = 3 /\ settled'.waited = 6000
            /\ settled'.created = 0
            /\ sandboxes' = sandboxes]_vars

\* With minWarm = 0 and maxTotal = 1, an acquire has failed with
\* PoolExhausted while the only sandbox is held by another caller.
C6_Witness ==
  /\ cfg.minWarm = 0 /\ cfg.maxTotal = 1
  /\ settled.call = "acquire" /\ settled.result = "PoolExhausted"
  /\ \E i \in sandboxes : obj[i].state = "executing" /\ i \in handles

\* C7: an acquire that takes a warm sandbox takes the one pushed earliest
\* among the tracked Ready sandboxes.
C7_WarmFifo ==
  [][(/\ settled'.call = "acquire" /\ settled'.result = "handle"
      /\ settled'.id \in sandboxes
      /\ obj[settled'.id].state = "ready") =>
       (pushLog # <<>> /\ Head(pushLog) = settled'.id)]_vars

\* An acquire has taken a warm sandbox while a sandbox pushed later is
\* still Ready in the queue.
C7_Witness ==
  /\ settled.call = "acquire" /\ settled.result = "handle"
  /\ settled.created = 0
  /\ \E b \in sandboxes : /\ b # settled.id
                          /\ obj[b].state = "ready"
                          /\ InSeq(readyQueue, b)

\* C8: an acquire call that starts once shutdownRequested is true is
\* rejected with SandboxUnavailable.
C8_AcquireAfterShutdownUnavailable ==
  (settled.call = "acquire" /\ settled.late) =>
    settled.result = "SandboxUnavailable"

LateShutdownStep ==
  \/ sd'.late /\ sd' # sd
  \/ settled'.call = "shutdown" /\ settled'.late

\* C10: a shutdown() call made after an earlier shutdown() has completed
\* changes neither the pool map, the ready queue, initialized nor
\* shutdownRequested, and emits no event.
C10_SecondShutdownNoOp ==
  [][LateShutdownStep =>
       /\ sandboxes' = sandboxes
       /\ readyQueue' = readyQueue
       /\ initialized' = initialized
       /\ shutdownRequested' = shutdownRequested
       /\ emitted' = <<>>]_vars

\* The warm-up creations of initialize calls that are in flight.
WarmUps == {t \in creators : t.owner.kind = "warm"}

\* C11: initialize is idempotent, also over calls that overlap in time:
\* warm-up creates at most minWarm sandboxes and one health timer and one
\* cleanup timer are started, so no interval runs besides the pair the
\* timer fields hold.
C11_InitializeOnce ==
  /\ Cardinality(WarmUps) <= cfg.minWarm
  /\ ~leakedTimers

Smaller(a, b) == IF a < b THEN a ELSE b

\* The manager is initialized and at rest, no sandbox is lent out, and the
\* health interval has fired QuietTicks times in a row since the last
\* destroy or step of any call.
Quiescent ==
  /\ initialized /\ ~shutdownRequested
  /\ AtRest
  /\ quiet = QuietTicks
  /\ \A i \in sandboxes : obj[i].state # "executing"

\* C12: in every quiescent state of an initialized manager (no acquire or
\* release in flight, no destroy within the last health interval) at least
\* min(minWarm, maxTotal) sandboxes are Ready.
C12_WarmFloor ==
  Quiescent => readyCount(Cur) >= Smaller(cfg.minWarm, cfg.maxTotal)

\* The events of the given type a step emitted for sandbox i.
EventsOf(evs, type, i) ==
  SelectSeq(evs, LAMBDA e : e.type = type /\ e.sandboxId = i)

\* C13: every sandbox inserted into the pool map (by warm-up, by acquire or
\* by the creation retry) emits exactly one created event, any number of
\* state-change events and at most one destroyed event.  Ids are never
\* reused, so: the step that inserts a record emits its one created event,
\* and no other step emits one; a destroyed event is emitted once in a
\* step, for a record that was tracked or being torn down, and leaves it
\* neither tracked nor being torn down.
C13_OneCreatedOneDestroyed ==
  [][\A i \in Ids :
       LET created == Len(EventsOf(emitted', "created", i))
           destroyed == Len(EventsOf(emitted', "destroyed", i))
       IN /\ (i \in sandboxes' /\ i \notin sandboxes) => created = 1
          /\ created > 0 => (created = 1 /\ obj[i].state = "none")
          /\ destroyed <= 1
          /\ destroyed = 1 =>
               /\ i \in sandboxes \/ \E d \in destroyers : d.id = i
               /\ i \notin sandboxes'
               /\ ~\E d \in destroyers' : d.id = i]_vars

RECURSIVE Heard(_, _, _)
\* The latest created or destroyed event for sandbox i after the events
\* evs, when it was h before them.
Heard(h, evs, i) ==
  IF evs = <<>> THEN h
  ELSE Heard(IF Head(evs).sandboxId = i
                /\ Head(evs).type \in {"created", "destroyed"}
             THEN Head(evs).type ELSE h,
             Tail(evs), i)

\* C14: for each sandbox id the created event precedes every state-change
\* event, and once its destroyed event has been emitted no further event
\* is emitted for that id.
C14_CausalOrder ==
  [][\A k \in 1..Len(emitted') :
       LET ev == emitted'[k]
           h == Heard(announced[ev.sandboxId], SubSeq(emitted', 1, k - 1),
                      ev.sandboxId)
       IN /\ ev.type = "state-change" => h # "none"
          /\ h # "destroyed"]_vars

\* The state sandbox i held right before the k-th event of the step: what
\* a listener read at the latest earlier event of the step for i, or the
\* state before the step.
HeldBefore(k, i) ==
  LET prior == {j \in 1..(k - 1) : emitted'[j].sandboxId = i}
  IN IF prior = {} THEN obj[i].state
     ELSE seen'[CHOOSE j \in prior : \A m \in prior : m <= j]

\* C15: whenever a state-change event {from, to} is delivered to a
\* listener, the sandbox's state field already equals to, and from is the
\* state it held immediately before.
C15_UpdateBeforeEmit ==
  [][\A k \in 1..Len(emitted') :
       emitted'[k].type = "state-change" =>
         /\ seen'[k] = emitted'[k].to
         /\ emitted'[k].from = HeldBefore(k, emitted'[k].sandboxId)]_vars

\* A release has delivered two state-change events for one sandbox, which
\* a listener saw Idle at the first and Ready at the second.
C15_Witness ==
  /\ settled.call = "release"
  /\ Len(emitted) = 2
  /\ emitted[1].type = "state-change" /\ emitted[2].type = "state-change"
  /\ emitted[1].from = "executing" /\ emitted[2].from = "idle"
  /\ seen = <<"idle", "ready">>

\* The listeners of ls that throw.
Throwers(ls) == SelectSeq(ls, Throws)

\* C16: if a registered listener throws while handling an event, every
\* other listener registered at that moment still receives the event, and
\* the operation that emitted it goes on as if the listener had returned:
\* the error is caught and logged inside emit, it reaches no caller and is
\* no call's outcome.
C16_ListenerErrorContained ==
  [][/\ \A k \in 1..Len(emitted') :
          /\ delivered'[k].to = listeners
          /\ delivered'[k].caught = Len(Throwers(listeners))
          /\ ~delivered'[k].escaped
     /\ settled'.result # ListenerError
     /\ Len(delivered') = Len(emitted')]_vars

\* An acquire has returned a handle although the first of two listeners
\* threw at the state-change event, which the second still received.
C16_Witness ==
  /\ settled.call = "acquire" /\ settled.result = "handle"
  /\ listeners = <<1, 2>>
  /\ Len(emitted) = 1
  /\ emitted[1].type = "state-change" /\ emitted[1].to = "executing"
  /\ delivered[1] = [to |-> <<1, 2>>, caught |-> 1, escaped |-> FALSE]

\* The step is the return of the probe of sandbox id, tracked and Ready or
\* Idle at that moment, which exits non-zero or throws and brings its
\* healthFailures to maxFailures or more.
ProbeCondemns(id) ==
  /\ hl.pc = "probe" /\ hl' # hl /\ Head(hl.todo) = id
  /\ id \in sandboxes /\ obj[id].state \in {"ready", "idle"}
  /\ obj'[id].healthFailures = obj[id].healthFailures + 1
  /\ obj[id].healthFailures + 1 >= cfg.maxFailures

\* The step ends the teardown a health eviction of sandbox id began.
EvictionEnds(id) ==
  \E d \in destroyers : /\ d.id = id /\ d.reason = "health-check-failure"
                        /\ d \notin destroyers'

\* C17: when a probe brings the healthFailures of a Ready or Idle sandbox
\* to maxFailures or more, a health-check-failed event with that count is
\* emitted and the sandbox is destroyed; its destroyed event, of reason
\* health-check-failure, follows the health-check-failed event, and the
\* sandbox is then neither in the pool map nor in the ready queue.  Below
\* maxFailures nothing is emitted (with maxFailures = 3 the eviction comes
\* with the third failed probe in a row).
C17_HealthEviction ==
  [][\A id \in Ids :
       /\ ProbeCondemns(id) =>
            /\ emitted' = <<Event("health-check-failed", id, "", "", "",
                                  obj[id].healthFailures + 1)>>
            /\ obj'[id].state = "destroyed"
            /\ \E d \in destroyers' :
                 d.id = id /\ d.reason = "health-check-failure"
       /\ EvictionEnds(id) =>
            /\ emitted' # <<>>
            /\ emitted'[1] = Event("destroyed", id, "", "", 
                                   "health-check-failure", 0)
            /\ id \notin sandboxes'
            /\ ~InSeq(readyQueue', id)
       /\ \A k \in 1..Len(emitted') :
            /\ (emitted'[k].type = "health-check-failed"
                /\ emitted'[k].sandboxId = id) =>
                 /\ emitted'[k].failures >= cfg.maxFailures
                 /\ hl.pc = "probe" /\ Head(hl.todo) = id
                 /\ emitted'[k].failures = obj[id].healthFailures + 1
            /\ (emitted'[k].type = "destroyed"
                /\ emitted'[k].sandboxId = id
                /\ emitted'[k].reason = "health-check-failure") =>
                 EvictionEnds(id)
       /\ announced'[id] = "destroyed" =>
            id \notin sandboxes' /\ ~InSeq(readyQueue', id)]_vars

\* With maxFailures = 3 the teardown of a health eviction has just ended:
\* the sandbox, which failed three probes, is gone from the map and the
\* queue.
C17_Witness ==
  /\ cfg.maxFailures = 3
  /\ emitted # <<>>
  /\ emitted[1].type = "destroyed"
  /\ emitted[1].reason = "health-check-failure"
  /\ obj[emitted[1].sandboxId].healthFailures = 3
  /\ emitted[1].sandboxId \notin sandboxes
  /\ ~InSeq(readyQueue, emitted[1].sandboxId)

\* Sandbox id is tracked and Idle, and has been so for more than
\* maxIdleMs.
IdleExpired(id) ==
  /\ id \in sandboxes /\ obj[id].state = "idle"
  /\ now - obj[id].lastUsedAt > cfg.maxIdleMs

\* The latest step emitted the destroyed event of sandbox id with reason
\* idle-timeout, and the id is out of the pool map.
Reaped(id) ==
  /\ id \notin sandboxes
  /\ \E k \in 1..Len(emitted) :
       emitted[k] = Event("destroyed", id, "", "", "idle-timeout", 0)

\* Sandbox id did not stay Idle: a health eviction or handle.destroy() has
\* destroyed it.
DestroyedOtherwise(id) ==
  \E d \in destroyers : d.id = id /\ d.reason # "idle-timeout"

\* C18: with the cleanup timer firing fairly and no shutdown, every
\* sandbox that stays Idle with now - lastUsedAt > maxIdleMs is eventually
\* destroyed with a destroyed event of reason idle-timeout and removed from
\* the pool map.
C18_IdleReaped ==
  \A id \in 1..MaxIds :
    IdleExpired(id) ~> (Reaped(id) \/ DestroyedOtherwise(id))

\* The reaper has just destroyed an Idle sandbox while another sandbox is
\* still tracked.
C18_Witness ==
  \E id \in Ids : Reaped(id) /\ sandboxes # {} /\ cl.pc = "idle"

\* C19: release(id) for an id that is not in the pool map is a silent
\* no-op: it returns without error, emits no event and leaves the pool map,
\* every record and the ready queue (and all else) as they were.  Checked
\* for every untracked id in every reachable state.
C19_ReleaseUntrackedNoOp ==
  \A id \in Ids :
    id \notin sandboxes =>
      LET r == release(Cur, id)
      IN /\ r.settled.call = "release" /\ r.settled.result = "noop"
         /\ r.emitted = <<>>
         /\ r.sandboxes = sandboxes
         /\ r.obj = obj
         /\ r.readyQueue = readyQueue
         /\ Core(r) = Core(Cur)

\* An id is queued although it is not in the pool map (shutdown() cleared
\* the map while its sandbox was being created), and release of it changes
\* nothing.
C19_Witness ==
  \E id \in Ids :
    /\ id \notin sandboxes
    /\ InSeq(readyQueue, id)
    /\ release(Cur, id).settled.result = "noop"
    /\ release(Cur, id).readyQueue = readyQueue
    /\ release(Cur, id).settled.result = "noop"
    /\ release(Cur, id).readyQueue = readyQueue

Stats(total, ready, executing, idle) ==
  [total |-> total, ready |-> ready, executing |-> executing, idle |-> idle,
   suspended |-> 0]

\* The step completes the initialize() call that initializes the manager,
\* and the one sandbox ever created is the one it warmed.
InitializeCompletes ==
  /\ ~initialized /\ initialized'
  /\ settled'.call = "initialize" /\ settled'.result = "ok"
  /\ nextId' = 2

\* The step is an acquire() call of caller c, made when the pool is as
\* initialize() left it.
AcquireOnWarmPool(c) ==
  /\ acq[c].pc = "idle"
  /\ \/ acq'[c].pc # "idle" /\ acq'[c].op = "acquire"
     \/ settled'.call = "acquire" /\ settled'.c = c
  /\ initialized /\ ~shutdownRequested
  /\ getStats(sandboxes, obj) = Stats(1, 1, 0, 0)

\* The step is the release of the one sandbox of the pool, which is
\* Executing.
ReleaseOfOnlySandbox ==
  /\ settled'.call = "release"
  /\ settled'.id \in sandboxes
  /\ getStats(sandboxes, obj) = Stats(1, 0, 1, 0)

\* C20: with minWarm = 1, maxTotal = 2 and a working engine, getStats is
\* {total 1, ready 1, executing 0, idle 0} after initialize(), {total 1,
\* ready 0, executing 1} after one acquire() and {total 1, ready 1,
\* executing 0} after the release of that handle: the warm sandbox is
\* reused and no second sandbox is created.
C20_WarmAcquireScenario ==
  [][(cfg.minWarm = 1 /\ cfg.maxTotal = 2) =>
       /\ InitializeCompletes =>
            getStats(sandboxes', obj') = Stats(1, 1, 0, 0)
       /\ \A c \in Callers : AcquireOnWarmPool(c) =>
            /\ settled'.call = "acquire" /\ settled'.c = c
            /\ settled'.result = "handle"
            /\ settled'.id \in sandboxes /\ obj[settled'.id].state = "ready"
            /\ settled'.created = 0
            /\ nextId' = nextId
            /\ getStats(sandboxes', obj') = Stats(1, 0, 1, 0)
       /\ ReleaseOfOnlySandbox =>
            /\ settled'.result = "ok"
            /\ sandboxes' = sandboxes
            /\ nextId' = nextId
            /\ getStats(sandboxes', obj') = Stats(1, 1, 0, 0)]_vars

\* The scenario has run to its end: the one sandbox ever created has been
\* released and is Ready again.
C20_Witness ==
  /\ cfg.minWarm = 1 /\ cfg.maxTotal = 2
  /\ settled.call = "release" /\ settled.result = "ok"
  /\ nextId = 2
  /\ getStats(sandboxes, obj) = Stats(1, 1, 0, 0)
  /\ readyQueue = <<settled.id>>

\* The characters of PathChars that the class [A-Za-z0-9/_.-] holds, written
\* out: - . / 0 9 A Z _ a z.
AllowedPathChars == {45, 46, 47, 48, 57, 65, 90, 95, 97, 122}

RejectedPath(filePath) ==
  \/ filePath = <<>>
  \/ \E k \in 1..Len(filePath) : filePath[k] \notin AllowedPathChars

\* C21: writeFile rejects every path that is empty or holds a character
\* outside [A-Za-z0-9/_.-] with an unsafe-path error and then issues no exec
\* against the container; every other path is passed on to exec, once, as the
\* target of the redirection.
C21_UnsafePathRejected ==
  pf.fn \in {"writeWaits", "writeSettled"} =>
    IF RejectedPath(pf.filePath)
    THEN /\ pf.fn = "writeSettled"
         /\ pf.thrown = UnsafeFilePath(pf.filePath)
         /\ pf.execs = <<>>
    ELSE /\ Len(pf.execs) = 1
         /\ pf.execs[1].redirect = pf.filePath
         /\ pf.thrown # UnsafeFilePath(pf.filePath)

\* A path with an allowed character and a space has been rejected.
C21_Witness ==
  /\ pf.fn = "writeSettled"
  /\ pf.filePath = <<97, 32>>
  /\ pf.thrown = UnsafeFilePath(pf.filePath)
  /\ pf.execs = <<>>

RECURSIVE PayloadsOf(_, _)
\* The payloads of the frames of one stream type, as text, in order.
PayloadsOf(frames, streamType) ==
  IF frames = <<>> THEN <<>>
  ELSE (IF frames[1].streamType = streamType THEN utf8(frames[1].payload)
        ELSE <<>>) \o PayloadsOf(Tail(frames), streamType)

ExecResolved == pf.fn = "exec" /\ pf.promise.state = "resolved"

\* C22: whatever was received, and in whatever chunks, an exec that resolves
\* returns as stdout the payloads of the complete frames of type 1 in order,
\* as stderr those of type 2, both trimmed, and as exitCode the exit code
\* exec.inspect() reported; a header or payload cut short by the end of the
\* stream ends the parsing and is no error: once the stream has ended first
\* and the inspection succeeds, the call resolves.
C22_ExecDemux ==
  /\ ExecResolved =>
       /\ pf.promise.value.stdout = trim(PayloadsOf(pf.frames, 1))
       /\ pf.promise.value.stderr = trim(PayloadsOf(pf.frames, 2))
       /\ pf.info # Null => pf.promise.value.exitCode = pf.info
  /\ (pf.fn = "exec" /\ pf.last = "inspect" /\ pf.info # Null) => ExecResolved

\* " a\n" on stdout and e-acute on stderr, followed by a frame cut short,
\* arrived in two chunks; the command exited with 137.
C22_Witness ==
  /\ ExecResolved
  /\ pf.frames = <<[streamType |-> 1, payload |-> <<32, 97, 10>>],
                   [streamType |-> 2, payload |-> <<195, 169>>]>>
  /\ pf.tail = <<2, 0, 0, 0, 0, 0, 1, 1, 97>>
  /\ Len(pf.chunks) = 2
  /\ pf.promise.value = [stdout |-> <<97>>, stderr |-> <<233>>, exitCode |-> 137]

\* C23: resolve or reject of the promise of one execInContainer call is
\* called at most once, whatever the order of the timer, end and error; a
\* timer that fires before the stream has ended destroys the stream and
\* rejects the call with SandboxTimeout("exec", timeoutMs), and no later
\* event changes the outcome of a call once it is settled.
C23_ExecSettlesOnce ==
  [][/\ pf'.fn = "exec" => pf'.calls <= 1
     /\ (pf.fn = "exec" /\ pf'.last = "timeout" /\ pf.stream = "open") =>
          /\ pf'.stream = "destroyed"
          /\ pf'.promise = [state |-> "rejected",
                            value |-> SandboxTimeoutError("exec", pf.timeoutMs)]
     /\ (pf.fn = "exec" /\ pf.promise.state # "pending") =>
          pf'.promise = pf.promise]_vars

\* The call timed out, and end and error were emitted afterwards.
C23_Witness ==
  /\ pf.fn = "exec"
  /\ pf.timer = "fired" /\ pf.ended /\ pf.failed
  /\ pf.stream = "destroyed"
  /\ pf.calls = 1
  /\ pf.promise = [state |-> "rejected",
                   value |-> SandboxTimeoutError("exec", 5000)]

\* The integer each environment string of the model stands for: "7" is 7,
\* "-1" is -1, "12px" is 12 (parseInt reads the digits it finds at the
\* start), " 3" is 3, "0" is 0; "abc" and "" are no integer.
IntegerOf(value) ==
  CASE value = Str(<<55>>) -> Num(7)
    [] value = Str(<<45, 49>>) -> Num(-1)
    [] value = Str(<<49, 50, 112, 120>>) -> Num(12)
    [] value = Str(<<32, 51>>) -> Num(3)
    [] value = Str(<<48>>) -> Num(0)
    [] OTHER -> Undefined

\* Environment, else override, else default.
Resolved(value, override, fallback) ==
  IF IntegerOf(value).def THEN IntegerOf(value).v
  ELSE IF override.def THEN override.v
  ELSE fallback

\* C24: loadConfig gives pool.minWarm, pool.maxTotal, pool.maxIdleMs and
\* resourceLimits.memoryBytes the integer of the environment variable when
\* it is set and parses, else the caller's override when there is one, else
\* the default: an unset or unparseable variable falls through (and nothing
\* is raised: the call returns a configuration for every input).
C24_ConfigPrecedence ==
  pf.fn = "loaded" =>
    /\ pf.config.pool.minWarm
         = Resolved(pf.env.SANDBOX_POOL_MIN_WARM, pf.overrides.minWarm, 0)
    /\ pf.config.pool.maxTotal
         = Resolved(pf.env.SANDBOX_POOL_MAX_TOTAL, pf.overrides.maxTotal, 5)
    /\ pf.config.pool.maxIdleMs
         = Resolved(pf.env.SANDBOX_POOL_MAX_IDLE_MS, pf.overrides.maxIdleMs,
                    300000)
    /\ pf.config.resourceLimits.memoryBytes
         = Resolved(pf.env.SANDBOX_MEMORY_BYTES, pf.overrides.memoryBytes,
                    536870912)

\* SANDBOX_POOL_MIN_WARM is "abc" and falls through to the override 3, while
\* SANDBOX_POOL_MAX_TOTAL is "7" and wins over the override 3; the unset
\* SANDBOX_MEMORY_BYTES without an override gives the default.
C24_Witness ==
  /\ pf.fn = "loaded"
  /\ pf.env.SANDBOX_POOL_MIN_WARM = Str(<<97, 98, 99>>)
  /\ pf.overrides.minWarm = Num(3)
  /\ pf.config.pool.minWarm = 3
  /\ pf.env.SANDBOX_POOL_MAX_TOTAL = Str(<<55>>)
  /\ pf.overrides.maxTotal = Num(3)
  /\ pf.config.pool.maxTotal = 7
  /\ ~pf.env.SANDBOX_MEMORY_BYTES.def /\ ~pf.overrides.memoryBytes.def
  /\ pf.config.resourceLimits.memoryBytes = 536870912

\* C25: every configuration loadConfig returns has 0 <= minWarm <= maxTotal
\* and positive durations and limits.
C25_ConfigValid ==
  pf.fn = "loaded" =>
    /\ 0 <= pf.config.pool.minWarm
    /\ pf.config.pool.minWarm <= pf.config.pool.maxTotal
    /\ pf.config.pool.maxIdleMs > 0
    /\ pf.config.healthCheck.intervalMs > 0
    /\ pf.config.timeouts.execMs > 0
    /\ pf.config.timeouts.initMs > 0
    /\ pf.config.timeouts.shutdownGraceMs > 0
    /\ pf.config.pool.maxTotal > 0
    /\ pf.config.resourceLimits.memoryBytes > 0
    /\ pf.config.resourceLimits.nanoCpus > 0
    /\ pf.config.resourceLimits.pidsLimit > 0
    /\ pf.config.healthCheck.maxFailures > 0

\* The health loop starts its probe of sandbox i in this step.
StartsProbe(i) ==
  /\ hl'.pc = "probe" /\ Head(hl'.todo) = i
  /\ ~(hl.pc = "probe" /\ hl.todo = hl'.todo)

\* The probe of sandbox i returns in this step.
ProbeReturns(i) == hl.pc = "probe" /\ Head(hl.todo) = i /\ hl' # hl

\* C30: the health loop starts no probe of a sandbox that is Executing, and
\* a probe that returns for a sandbox that is Executing neither counts a
\* failure for it nor destroys it.
C30_ExecutingNotProbed ==
  [][\A i \in Ids :
       /\ StartsProbe(i) => obj'[i].state # "executing"
       /\ (ProbeReturns(i) /\ obj[i].state = "executing") =>
            /\ obj'[i].healthFailures <= obj[i].healthFailures
            /\ obj'[i].state = "executing"]_vars

\* The queue entry at position k is usable: its record is in the map and
\* Ready.
Usable(k) ==
  readyQueue[k] \in sandboxes /\ obj[readyQueue[k]].state = "ready"

\* The position of the first usable entry of the queue, 0 when there is
\* none.
FirstUsable ==
  IF \E k \in 1..Len(readyQueue) : Usable(k)
  THEN CHOOSE k \in 1..Len(readyQueue) :
         Usable(k) /\ \A j \in 1..(k - 1) : ~Usable(j)
  ELSE 0

\* The step wrote Executing to the state of sandbox i as its last write to
\* it (a record that has left the map, and that only its handle refers to,
\* is kept as collected).
MadeExecuting(i) ==
  /\ ChangesOf(emitted, i) # <<>>
  /\ ChangesOf(emitted, i)[Len(ChangesOf(emitted, i))].to = "executing"

\* C26: a handle acquire returns is that of a sandbox in state Executing at
\* the return; and from every reachable state the warm path of acquire
\* takes the first queue entry whose record is in the map and Ready, makes
\* it Executing, and drops the entries in front of it, whose records are
\* missing or not Ready, without returning them; with no such entry it
\* empties the queue and takes nothing.
C26_HandleIsExecuting ==
  /\ (settled.call = "acquire" /\ settled.result = "handle") =>
       /\ MadeExecuting(settled.id)
       /\ obj[settled.id].state \in {"executing", "collected"}
  /\ LET r == DrainQueue(Cur, 1)
         k == FirstUsable
     IN /\ r.thrown = NoError
        /\ IF k = 0
           THEN r.ret = 0 /\ r.readyQueue = <<>>
           ELSE /\ r.ret = readyQueue[k]
                /\ r.obj[r.ret].state = "executing"
                /\ r.readyQueue = SubSeq(readyQueue, k + 1, Len(readyQueue))

\* The queue holds an entry whose record is being torn down in front of a
\* Ready one, which the warm path takes.
C26_Witness ==
  /\ Len(readyQueue) = 2
  /\ readyQueue[1] \in sandboxes /\ obj[readyQueue[1]].state = "destroyed"
  /\ Usable(2)
  /\ DrainQueue(Cur, 1).ret = readyQueue[2]
  /\ DrainQueue(Cur, 1).readyQueue = <<>>
  /\ DrainQueue(Cur, 1).obj[readyQueue[2]].state = "executing"

\* The attempt of task t ends in this step.
AttemptEnds(t) == t \in creators /\ \A u \in creators' : u.id # t.id

\* The attempt of task t ends with its record Ready.
AttemptSucceeds(t) ==
  /\ AttemptEnds(t)
  /\ \E k \in 1..Len(emitted') :
       /\ emitted'[k].type = "state-change"
       /\ emitted'[k].sandboxId = t.id
       /\ emitted'[k].to = "ready"

\* The attempts that start in this step for the request of owner o.
Started(o) == {u \in creators' : u.owner = o /\ u.id >= nextId}

\* C27: a creation request makes at most two attempts.  When its first
\* attempt fails, the container, if one was created, has been removed
\* (errors of the removal ignored), the record leaves the map, an error
\* event is emitted for it and exactly one further attempt starts, for the
\* same request and under a new id; when the further attempt fails, none
\* starts and an acquire that asked for the sandbox fails with
\* SandboxUnavailable; an attempt that succeeds has made its record Ready;
\* and a further attempt starts in no other way.
C27_CreateRetriesOnce ==
  [][/\ \A t \in creators :
          (AttemptEnds(t) /\ ~AttemptSucceeds(t)) =>
            IF ~t.retry
            THEN /\ obj[t.id].container => t.pc = "rm"
                 /\ t.id \notin sandboxes'
                 /\ \E k \in 1..Len(emitted') :
                      emitted'[k].type = "error" /\ emitted'[k].sandboxId = t.id
                 /\ Cardinality(Started(t.owner)) = 1
                 /\ \A u \in Started(t.owner) : u.retry /\ u.id # t.id
            ELSE /\ Started(t.owner) = {}
                 /\ t.owner.kind = "acquire" =>
                      /\ settled'.call = "acquire" /\ settled'.c = t.owner.c
                      /\ settled'.result = "SandboxUnavailable"
     /\ \A u \in creators' :
          (u.retry /\ u.id >= nextId) =>
            \E t \in creators :
              /\ ~t.retry /\ t.owner = u.owner
              /\ AttemptEnds(t) /\ ~AttemptSucceeds(t)]_vars

\* The first attempt of an acquire failed and its retry, sandbox 2, was
\* returned to the caller; sandbox 1 has left the map.
C27_Witness ==
  /\ settled.call = "acquire" /\ settled.result = "handle"
  /\ settled.id = 2 /\ settled.created = 1
  /\ nextId = 3
  /\ sandboxes = {2}
  /\ cfg.minWarm = 0

\* C28: when the retry of a creation request fails, and the request with it
\* (SandboxUnavailable), the record of the retry is not in the pool map
\* afterwards; the record of the first attempt has left it before the retry
\* started.
C28_FailedCreateLeavesNoRecord ==
  [][\A t \in creators :
       (t.retry /\ AttemptEnds(t) /\ ~AttemptSucceeds(t)) =>
         t.id \notin sandboxes']_vars

\* Manager state r is without sandbox i, and the step that led to it emitted
\* one destroyed event for i, with this reason.
TornDown(r, i, reason) ==
  /\ i \notin r.sandboxes
  /\ ~InSeq(r.readyQueue, i)
  /\ Len(EventsOf(r.emitted, "destroyed", i)) = 1
  /\ EventsOf(r.emitted, "destroyed", i)[1].reason = reason

\* C29: in every reachable state, destroySandbox(i, reason) for a tracked
\* sandbox that is not Destroyed writes Destroyed to it, and the call, once
\* stopContainer and removeContainer have returned or thrown, ends with i out
\* of the map and out of the ready queue and with one destroyed event that
\* carries the reason; no second teardown of i runs beside it; for an
\* untracked id and for a Destroyed sandbox the call changes nothing and
\* emits nothing.
C29_DestroyPath ==
  /\ \A i \in Ids :
       LET r == destroySandbox(Cur, i, "user-requested", "user")
       IN IF i \notin sandboxes \/ obj[i].state = "destroyed"
          THEN /\ Core(r) = Core(Cur)
               /\ r.emitted = <<>>
               /\ r.ret = 0
          ELSE /\ r.obj[i].state = "destroyed"
               /\ IF r.ret = 1
                  THEN /\ EventsOf(r.emitted, "destroyed", i) = <<>>
                       /\ \E d \in r.destroyers :
                            d.id = i /\ d.reason = "user-requested"
                  ELSE TornDown(r, i, "user-requested")
  /\ \A d \in destroyers :
       /\ \A ok \in BOOLEAN : TornDown(AfterDestroy(Cur, d, ok), d.id, d.reason)
       /\ obj[d.id].state \in {"destroyed", "collected"}
       /\ \A e \in destroyers : e.id = d.id => e = d

\* handle.destroy() has ended although stopping or removing the container
\* threw: the sandbox is gone and its destroyed event was emitted.
C29_Witness ==
  /\ settled.call = "destroy" /\ settled.result = "logged"
  /\ settled.id \notin sandboxes
  /\ ~InSeq(readyQueue, settled.id)
  /\ EventsOf(emitted, "destroyed", settled.id)
       = <<Event("destroyed", settled.id, "", "", "user-requested", 0)>>

\* The cleanup loop calls destroySandbox(i, "idle-timeout") in this step and
\* the call takes effect: a teardown of i for the loop starts, or has run to
\* its end at once.
CleanupDestroys(i) ==
  \/ \E d \in destroyers' \ destroyers : d.id = i /\ d.owner = "cleanup"
  \/ /\ \A d \in destroyers : d.id # i
     /\ \E k \in 1..Len(emitted') :
          /\ emitted'[k].type = "destroyed"
          /\ emitted'[k].sandboxId = i
          /\ emitted'[k].reason = "idle-timeout"

C32_HealthFailuresCount ==
  [][/\ \A i \in Ids :
          /\ (obj[i].state = "none" /\ obj'[i].state # "none") =>
               obj'[i].healthFailures = 0
          /\ (obj'[i].state # "collected"
                /\ obj'[i].healthFailures # obj[i].healthFailures) =>
               /\ ProbeReturns(i)
               /\ obj'[i].healthFailures \in {0, obj[i].healthFailures + 1}
     /\ hl.pc = "probe" =>
          LET i == Head(hl.todo)
          IN /\ AfterProbe(Cur, TRUE).obj[i].healthFailures = 0
             /\ AfterProbe(Cur, FALSE).obj[i].healthFailures
                  = obj[i].healthFailures + 1
             /\ obj'[i].state # "collected" =>
                  obj'[i].healthFailures
                    \in {obj[i].healthFailures,
                         AfterProbe(Cur, TRUE).obj[i].healthFailures,
                         AfterProbe(Cur, FALSE).obj[i].healthFailures}]_vars

\* A sandbox that has failed one probe is being probed again; a probe that
\* exits 0 will reset its count.
C32_Witness ==
  /\ hl.pc = "probe"
  /\ Head(hl.todo) \in sandboxes
  /\ obj[Head(hl.todo)].healthFailures = 1
  /\ AfterProbe(Cur, TRUE).obj[Head(hl.todo)].healthFailures = 0
  /\ AfterProbe(Cur, FALSE).obj[Head(hl.todo)].healthFailures = 2

\* acquire returns a handle for sandbox i in this step.
HandsOut(i) ==
  /\ settled'.call = "acquire" /\ settled'.result = "handle"
  /\ settled'.id = i

\* A caller holds sandbox i: a handle for it was returned and it is
\* Executing.
Held(i) == i \in handles /\ obj[i].state = "executing"

\* C33: a sandbox that a caller holds is not handed out again: once acquire
\* has returned a handle for it, the sandbox stays held until a release
\* (Idle or Ready afterwards) or a teardown of it (Destroyed, or gone), and
\* no acquire returns a handle for a sandbox that is held, however the
\* acquire calls interleave.
C33_ExclusiveHandOut ==
  [][\A i \in Ids :
       /\ HandsOut(i) => ~Held(i) /\ obj[i].state # "executing"
       /\ (HandsOut(i) /\ i \in sandboxes') => Held(i)'
       /\ (Held(i) /\ ~Held(i)') =>
            obj'[i].state \in {"idle", "ready", "destroyed", "collected"}]_vars

\* Two callers hold a sandbox each, the second handed out while the first
\* was held.
C33_Witness ==
  /\ settled.call = "acquire" /\ settled.result = "handle"
  /\ \E i \in Ids : i # settled.id /\ Held(i)
  /\ Held(settled.id)

\* C34: when acquire fails with PoolExhausted, every record of the pool map
\* is Executing, Creating or Initializing; none is Idle or Ready.
C34_ExhaustedMeansAllInUse ==
  (settled.call = "acquire" /\ settled.result = "PoolExhausted") =>
    \A i \in sandboxes :
      obj[i].state \in {"executing", "creating", "initializing"}

\* shutdown() has been called and no shutdown() call is in progress.
ShutdownCompleted == shutdownRequested /\ sd.pc = "idle"

\* No acquire() or initialize() call that began after shutdown() was called
\* is in progress.
NoLateCall == \A c \in Callers : ~acq[c].late

\* C35: once shutdown() has completed, what was in flight when it began (an
\* acquire in its retry loop, a sandbox creation, a health-check tick)
\* inserts no record into the pool map and returns no handle.
C35_ShutdownIsFinal ==
  [][(ShutdownCompleted /\ NoLateCall) =>
       /\ sandboxes' \subseteq sandboxes
       /\ ~(settled'.call = "acquire" /\ settled'.result = "handle")]_vars

\* A step of an acquire() call that began after shutdown() was called.
LateAcquireStep ==
  \E c \in Callers :
     /\ acq[c] # acq'[c]
     /\ \/ acq[c].op = "acquire" /\ acq[c].late
        \/ acq[c].pc = "idle" /\ acq'[c].op = "acquire" /\ acq'[c].late
        \/ /\ acq[c].pc = "idle" /\ settled'.call = "acquire"
           /\ settled'.c = c /\ settled'.late

\* C36: an acquire call made once shutdown() has completed creates no
\* sandbox, starts no timer and leaves initialized false and the map empty.
C36_LateAcquireOnlyFails ==
  [][(ShutdownCompleted /\ LateAcquireStep) =>
       /\ sandboxes' \subseteq sandboxes
       /\ creators' \subseteq creators
       /\ healthTimer' # "live" /\ cleanupTimer' # "live"
       /\ ~initialized']_vars

\* Sandbox i is a record of the pool map in state Idle.
LeftIdle(i) == i \in sandboxes /\ obj[i].state = "idle"

\* C37: a sandbox that release left Idle is not handed out again and never
\* becomes Ready or Executing; it leaves Idle only by being destroyed, and
\* while it is Idle it stays in the pool map, counted against maxTotal.
C37_IdleIsTerminal ==
  [][\A i \in Ids : LeftIdle(i) =>
       /\ ~HandsOut(i)
       /\ obj'[i].state \in {"idle", "destroyed"}
       /\ obj'[i].state = "idle" => i \in sandboxes']_vars

\* C38: release(id) on a tracked sandbox that is not Executing fails with
\* InvalidTransition; the sandbox's state, sessionId and lastUsedAt, the
\* ready queue, the pool map and everything else the manager holds are as
\* before, and no event is emitted.  release is applied to every tracked
\* sandbox of every reachable state.
C38_ReleaseNotExecutingFails ==
  \A i \in sandboxes : obj[i].state # "executing" =>
     LET r == release(Cur, i)
     IN /\ r.settled.call = "release"
        /\ r.settled.result = InvalidTransitionError
        /\ r.obj[i] = obj[i]
        /\ r.readyQueue = readyQueue /\ r.sandboxes = sandboxes
        /\ Core(r) = Core(Cur)
        /\ r.emitted = <<>>

\* A stale handle: sandbox i was handed out and released (Idle), another
\* sandbox whose handle is out is being destroyed, and release fails on
\* both of them.
C38_Witness ==
  \E i, j \in handles \cap sandboxes :
     /\ obj[i].state = "idle" /\ obj[j].state = "destroyed"
     /\ release(Cur, i).settled.result = InvalidTransitionError
     /\ release(Cur, j).settled.result = InvalidTransitionError

\* C39: no record of the pool map is ever in state Error or Suspended: a
\* tracked sandbox is Creating, Initializing, Ready, Executing, Idle or
\* Destroyed, and getStats().suspended is 0.
C39_NoErrorNoSuspended ==
  /\ \A i \in sandboxes :
        obj[i].state \in {"creating", "initializing", "ready", "executing",
                          "idle", "destroyed"}
  /\ getStats(sandboxes, obj).suspended = 0

\* A creation has just failed (its error event is out): the failed record
\* has left the map, the record of the retry is in it, and getStats counts
\* an Executing sandbox beside it.
C39_Witness ==
  /\ \E k \in 1..Len(emitted) : emitted[k].type = "error"
  /\ \E i \in sandboxes : obj[i].state = "creating"
  /\ getStats(sandboxes, obj).executing >= 1
  /\ getStats(sandboxes, obj).suspended = 0

\* C40: an acquire call ends after at most one initial attempt and
\* ACQUIRE_MAX_RETRIES retry waits, and it ends by returning a handle or by
\* failing with PoolExhausted or SandboxUnavailable.
C40_AcquireOutcomes ==
  settled.call = "acquire" =>
    /\ settled.result \in {"handle", "PoolExhausted", "SandboxUnavailable"}
    /\ settled.attempt <= ACQUIRE_MAX_RETRIES
    /\ settled.waited <= ACQUIRE_MAX_RETRIES * ACQUIRE_RETRY_INTERVAL_MS

====
